---------------------------- MODULE Spec2Model ----------------------------
(***************************************************************************)
(* A model of DateSense (humangeo/DateSense): the tokenizer of DStoken.py, *)
(* the candidate model, culling, duplicate resolution and format assembly  *)
(* of DSoptions.py and the four rule classes of DSrule.py.                 *)
(*                                                                         *)
(* Python strings are modelled as sequences of one-character strings, so   *)
(* that tokenizing, lower-casing, int() and the substring test of          *)
(* `a in b` are computed, not assumed.                                     *)
(***************************************************************************)
EXTENDS Integers, Sequences, FiniteSets, TLC

VARIABLES
    dates,        \* the samples handed to detect_format / initialize
    formatrules,  \* DSoptions.formatrules
    allowed,      \* DSoptions.allowed: one candidate list per Position
    numranges,    \* DSoptions.numranges: None or [min,max] per Position
    pc,           \* where the session is in its pipeline
    di,           \* cull_with_dates: number of samples already culled
    ri,           \* apply_rules: number of rules already applied
    result,       \* the last value returned by get_format_string
    args,         \* the arguments of that call
    numoptions,   \* DSoptions.numoptions
    wordoptions,  \* DSoptions.wordoptions
    tzoffsetdirective, \* DSoptions.tzoffsetdirective
    testcase,     \* Datetest.case: the format the samples were rendered with
    tokin,        \* tokenize_date: its argument
    tokout,       \* tokenize_date: its return value
    peer,         \* a second DSoptions object run beside this one, or None
    given         \* the optional arguments detect_format was called with

vars == <<dates, formatrules, numoptions, wordoptions, tzoffsetdirective, testcase,
          allowed, numranges, pc, di, ri, result, args, tokin, tokout, peer,
          given>>

---------------------------------------------------------------------------
(* Bounds of the model. *)

\* longest string handed to tokenize_date in SpecTok
MaxLen == 6
\* largest number of samples handed to detect_format in Spec
MaxDates == 2
\* number of samples rendered for a round-trip session
RoundTripSamples == 3

---------------------------------------------------------------------------
(* Characters and Python's string primitives. *)

DigitChars == {"0", "1", "2", "3", "4", "5", "6", "7", "8", "9"}
LowerChars == {"a", "b", "c", "d", "e", "f", "g", "h", "i", "j", "k", "l", "m",
               "n", "o", "p", "q", "r", "s", "t", "u", "v", "w", "x", "y", "z"}
UpperChars == {"A", "B", "C", "D", "E", "F", "G", "H", "I", "J", "K", "L", "M",
               "N", "O", "P", "Q", "R", "S", "T", "U", "V", "W", "X", "Y", "Z"}
SignChars == {"+", "-"}

\* int() of one ASCII digit
DigitVal(c) ==
    CASE c = "0" -> 0 [] c = "1" -> 1 [] c = "2" -> 2 [] c = "3" -> 3
      [] c = "4" -> 4 [] c = "5" -> 5 [] c = "6" -> 6 [] c = "7" -> 7
      [] c = "8" -> 8 [] c = "9" -> 9

\* int(text) for a run of ASCII digits (leading zeros allowed)
RECURSIVE IntOf(_)
IntOf(text) ==
    IF text = <<>> THEN 0
    ELSE 10 * IntOf(SubSeq(text, 1, Len(text) - 1)) + DigitVal(text[Len(text)])

\* str.lower() of one character
LowerChar(c) ==
    CASE c = "A" -> "a" [] c = "B" -> "b" [] c = "C" -> "c" [] c = "D" -> "d"
      [] c = "E" -> "e" [] c = "F" -> "f" [] c = "G" -> "g" [] c = "H" -> "h"
      [] c = "I" -> "i" [] c = "J" -> "j" [] c = "K" -> "k" [] c = "L" -> "l"
      [] c = "M" -> "m" [] c = "N" -> "n" [] c = "O" -> "o" [] c = "P" -> "p"
      [] c = "Q" -> "q" [] c = "R" -> "r" [] c = "S" -> "s" [] c = "T" -> "t"
      [] c = "U" -> "u" [] c = "V" -> "v" [] c = "W" -> "w" [] c = "X" -> "x"
      [] c = "Y" -> "y" [] c = "Z" -> "z" [] OTHER -> c

\* str.lower()
Lower(text) == [i \in 1..Len(text) |-> LowerChar(text[i])]

\* str.startswith
StartsWith(word, prefix) ==
    /\ Len(prefix) <= Len(word)
    /\ SubSeq(word, 1, Len(prefix)) = prefix

\* `a in b` for two Python strings: a is a substring of b
IsSubstr(a, b) ==
    \E k \in 0..(Len(b) - Len(a)) : SubSeq(b, k + 1, k + Len(a)) = a

\* str.replace('%','%%')
RECURSIVE ReplacePercent(_)
ReplacePercent(text) ==
    IF text = <<>> THEN <<>>
    ELSE (IF Head(text) = "%" THEN <<"%", "%">> ELSE <<Head(text)>>)
             \o ReplacePercent(Tail(text))

\* the concatenation of a list of strings
RECURSIVE Concat(_)
Concat(texts) ==
    IF texts = <<>> THEN <<>> ELSE Head(texts) \o Concat(Tail(texts))

B2I(b) == IF b THEN 1 ELSE 0
Min(a, b) == IF a <= b THEN a ELSE b
Max(a, b) == IF a >= b THEN a ELSE b

---------------------------------------------------------------------------
(* DStoken *)

KIND_DECORATOR == 0
KIND_NUMBER == 1
KIND_WORD == 2
KIND_TIMEZONE == 3
TIMEZONE_LENGTH == 4

\* the option of a token that has none (option=None)
NoOption == [type |-> "none"]

\* DStoken.__init__: the score starts at the option's commonality, or 0
DStoken(kind, text, option) ==
    [kind |-> kind, text |-> text, option |-> option,
     score |-> IF option.type = "none" THEN 0 ELSE option.common]

create_decorator(text) == DStoken(KIND_DECORATOR, text, NoOption)
create_number(option) == DStoken(KIND_NUMBER, option.directive, option)
create_word(option) == DStoken(KIND_WORD, option.directive, option)
create_timezone(directive) == DStoken(KIND_TIMEZONE, directive, NoOption)

is_decorator(tok) == tok.kind = KIND_DECORATOR
is_number(tok) == tok.kind = KIND_NUMBER
is_word(tok) == tok.kind = KIND_WORD
is_timezone(tok) == tok.kind = KIND_TIMEZONE

\* the kind the character-class pass gives one character
CharKind(c) ==
    KIND_NUMBER * B2I(c \in DigitChars)
    + KIND_WORD * B2I(c \in LowerChars \cup UpperChars)
    + KIND_TIMEZONE * B2I(c \in SignChars)

\* The character-class pass: st = [text, kind, tokens] is the loop's state
\* (current_text, current_kind, tokens) before character k.
RECURSIVE ClassPass(_, _, _)
ClassPass(s, k, st) ==
    IF k > Len(s)
    THEN IF st.text # <<>>
         THEN Append(st.tokens, DStoken(st.kind, st.text, NoOption))
         ELSE st.tokens
    ELSE LET tokkind == CharKind(s[k])
         IN IF tokkind = st.kind /\ st.kind # KIND_TIMEZONE
            THEN ClassPass(s, k + 1, [st EXCEPT !.text = Append(st.text, s[k])])
            ELSE ClassPass(s, k + 1,
                     [text |-> <<s[k]>>, kind |-> tokkind,
                      tokens |-> IF st.text # <<>>
                                 THEN Append(st.tokens, DStoken(st.kind, st.text, NoOption))
                                 ELSE st.tokens])

\* check_prev of the timezone pass, read from the token list as it is when
\* token i is visited (tokens before i may already have been re-kinded)
CheckPrev(tokens, i) ==
    \/ i = 1
    \/ ~(is_number(tokens[i - 1]) \/ is_timezone(tokens[i - 1]))

\* check_next of the timezone pass
CheckNext(tokens, i) ==
    /\ i < Len(tokens)
    /\ is_number(tokens[i + 1])
    /\ Len(tokens[i + 1].text) = TIMEZONE_LENGTH

\* tok.text += toknext.text, with the digits dropped
MergedText_DropDigits(text, nexttext) == text

\* tok.text += toknext.text
MergedText(text, nexttext) == text \o nexttext

\* The timezone pass. tokens is mutated in place by the code (tok.kind and
\* tok.text are assigned), so the list is threaded through the loop.
RECURSIVE TzPass(_, _, _, _)
TzPass(tokens, i, skip, rettokens) ==
    IF i > Len(tokens) THEN rettokens
    ELSE IF skip THEN TzPass(tokens, i + 1, FALSE, rettokens)
    ELSE IF is_timezone(tokens[i])
         THEN IF CheckPrev(tokens, i) /\ CheckNext(tokens, i)
              THEN LET tok == [tokens[i] EXCEPT !.text = MergedText(@, tokens[i + 1].text)]
                   IN TzPass([tokens EXCEPT ![i] = tok], i + 1, TRUE,
                             Append(rettokens, tok))
              ELSE LET tok == [tokens[i] EXCEPT !.kind = KIND_DECORATOR]
                   IN TzPass([tokens EXCEPT ![i] = tok], i + 1, FALSE,
                             Append(rettokens, tok))
         ELSE TzPass(tokens, i + 1, FALSE, Append(rettokens, tokens[i]))

\* DStoken.tokenize_date
tokenize_date(date_string) ==
    TzPass(ClassPass(date_string, 1, [text |-> <<>>, kind |-> -1, tokens |-> <<>>]),
           1, FALSE, <<>>)

---------------------------------------------------------------------------
(* Python containers: `x in c` and `for x in c` differ for str and tuple. *)

PyStr(s) == [py |-> "str", v |-> s]
PyTuple(t) == [py |-> "tuple", v |-> t]

\* text in c
PyIn(text, c) ==
    IF c.py = "str" THEN IsSubstr(text, c.v)
    ELSE \E k \in 1..Len(c.v) : c.v[k] = text

\* the items of `for x in c`: the characters of a str, the elements of a tuple
PyIter(c) ==
    IF c.py = "str" THEN [k \in 1..Len(c.v) |-> <<c.v[k]>>] ELSE c.v

\* None
None == <<>>

---------------------------------------------------------------------------
(* DSoptions: the directive catalog *)

UNCOMMON == 1
COMMON == 2

NumOption(directive, common, numrange) ==
    [type |-> "num", directive |-> directive, common |-> common,
     numrange |-> numrange]

WordOption(directive, common, words, matchlength) ==
    [type |-> "word", directive |-> directive, common |-> common,
     words |-> words, matchlength |-> matchlength]

\* includesvalue without the test against the maximum
NumIncludesValue_MinOnly(option, value) == value >= option.numrange[1]

\* NumOption.includesvalue
NumIncludesValue(option, value) ==
    value >= option.numrange[1] /\ value <= option.numrange[2]

\* the prefix match left out: the lower-cased value is one of the words
WordIncludesValue_ExactOnly(option, value) ==
    \E k \in 1..Len(option.words) : option.words[k] = Lower(value)

\* WordOption.includesvalue
WordIncludesValue(option, value) ==
    LET value_lower == Lower(value)
    IN IF option.matchlength # 0 /\ Len(value_lower) >= option.matchlength
       THEN \E k \in 1..Len(option.words) : StartsWith(option.words[k], value_lower)
       ELSE \E k \in 1..Len(option.words) : option.words[k] = value_lower

---------------------------------------------------------------------------
(* DSrule: the rule objects' constructors *)

DSDelimiterRule(directives, delimiters, posscore, negscore) ==
    [type |-> "delimiter", directives |-> directives, delimiters |-> delimiters,
     posscore |-> posscore, negscore |-> negscore]

DSLikelyRangeRule(directives, likelyrange, posscore, negscore) ==
    [type |-> "likelyrange", directives |-> directives, likelyrange |-> likelyrange,
     posscore |-> posscore, negscore |-> negscore]

DSPatternRule(sequence, maxdistance, minmatchscore, posscore, negscore) ==
    [type |-> "pattern", sequence |-> sequence, maxdistance |-> maxdistance,
     minmatchscore |-> minmatchscore, posscore |-> posscore, negscore |-> negscore]

DSMutExclusionRule(directives, posscore, negscore) ==
    [type |-> "mutexclusion", directives |-> directives,
     posscore |-> posscore, negscore |-> negscore]

---------------------------------------------------------------------------
(* DSoptions: the default catalog and the default rules *)

dir_y == NumOption(<<"%", "y">>, COMMON, <<0, 99>>)

dir_Y == NumOption(<<"%", "Y">>, COMMON, <<0, 9999>>)

dir_m == NumOption(<<"%", "m">>, COMMON, <<1, 12>>)

dir_d == NumOption(<<"%", "d">>, COMMON, <<1, 31>>)

dir_H == NumOption(<<"%", "H">>, COMMON, <<0, 23>>)

dir_I == NumOption(<<"%", "I">>, COMMON, <<1, 12>>)

dir_M == NumOption(<<"%", "M">>, COMMON, <<0, 59>>)

dir_S == NumOption(<<"%", "S">>, COMMON, <<0, 61>>)

dir_g == NumOption(<<"%", "g">>, UNCOMMON, <<0, 99>>)

dir_G == NumOption(<<"%", "G">>, UNCOMMON, <<0, 9999>>)

dir_V == NumOption(<<"%", "V">>, UNCOMMON, <<1, 53>>)

dir_u == NumOption(<<"%", "u">>, UNCOMMON, <<1, 7>>)

dir_j == NumOption(<<"%", "j">>, UNCOMMON, <<1, 366>>)

dir_C == NumOption(<<"%", "C">>, UNCOMMON, <<0, 99>>)

dir_w == NumOption(<<"%", "w">>, UNCOMMON, <<0, 6>>)

dir_U == NumOption(<<"%", "U">>, UNCOMMON, <<0, 53>>)

dir_W == NumOption(<<"%", "W">>, UNCOMMON, <<0, 53>>)

dir_b ==
    WordOption(<<"%", "b">>, COMMON, <<
        <<"j", "a", "n">>,
        <<"f", "e", "b">>,
        <<"m", "a", "r">>,
        <<"a", "p", "r">>,
        <<"m", "a", "y">>,
        <<"j", "u", "n">>,
        <<"j", "u", "l">>,
        <<"a", "u", "g">>,
        <<"s", "e", "p">>,
        <<"o", "c", "t">>,
        <<"n", "o", "v">>,
        <<"d", "e", "c">>>>, 0)

dir_B ==
    WordOption(<<"%", "B">>, COMMON, <<
        <<"j", "a", "n", "u", "a", "r", "y">>,
        <<"f", "e", "b", "r", "u", "a", "r", "y">>,
        <<"m", "a", "r", "c", "h">>,
        <<"a", "p", "r", "i", "l">>,
        <<"m", "a", "y">>,
        <<"j", "u", "n", "e">>,
        <<"j", "u", "l", "y">>,
        <<"a", "u", "g", "u", "s", "t">>,
        <<"s", "e", "p", "t", "e", "m", "b", "e", "r">>,
        <<"o", "c", "t", "o", "b", "e", "r">>,
        <<"n", "o", "v", "e", "m", "b", "e", "r">>,
        <<"d", "e", "c", "e", "m", "b", "e", "r">>>>, 0)

dir_p ==
    WordOption(<<"%", "p">>, COMMON, <<
        <<"a", "m">>,
        <<"p", "m">>>>, 0)

dir_a ==
    WordOption(<<"%", "a">>, UNCOMMON, <<
        <<"s", "u", "n">>,
        <<"m", "o", "n">>,
        <<"t", "u", "e">>,
        <<"w", "e", "d">>,
        <<"t", "h", "u">>,
        <<"f", "r", "i">>,
        <<"s", "a", "t">>>>, 0)

dir_A ==
    WordOption(<<"%", "A">>, UNCOMMON, <<
        <<"s", "u", "n", "d", "a", "y">>,
        <<"m", "o", "n", "d", "a", "y">>,
        <<"t", "u", "e", "s", "d", "a", "y">>,
        <<"w", "e", "d", "n", "e", "s", "d", "a", "y">>,
        <<"t", "h", "u", "r", "s", "d", "a", "y">>,
        <<"f", "r", "i", "d", "a", "y">>,
        <<"s", "a", "t", "u", "r", "d", "a", "y">>>>, 0)

dir_Z ==
    WordOption(<<"%", "Z">>, UNCOMMON, <<
        <<"u", "t", "c">>,
        <<"g", "m", "t">>>>, 0)

dir_z == <<"%", "z">>

rule_delim_date ==
    DSDelimiterRule(PyTuple(<<<<"%", "d">>, <<"%", "m">>, <<"%", "y">>, <<"%", "Y">>>>),
        PyTuple(<<<<"-">>, <<"/">>>>), 2, 0)

rule_delim_ISO_date ==
    DSDelimiterRule(PyTuple(<<<<"%", "G">>, <<"%", "g">>, <<"%", "V">>, <<"%", "u">>, <<"%", "j">>>>),
        PyTuple(<<<<"-">>, <<"W">>>>), 2, -3)

rule_delim_time ==
    DSDelimiterRule(PyTuple(<<<<"%", "H">>, <<"%", "I">>, <<"%", "M">>, <<"%", "S">>>>),
        PyStr(<<":">>), 2, 0)

rule_range_years ==
    DSLikelyRangeRule(PyTuple(<<<<"%", "Y">>, <<"%", "G">>>>), <<1000, 3000>>, 1, -1)

rule_range_cent ==
    DSLikelyRangeRule(PyStr(<<"%", "C">>), <<10, 30>>, 0, -1)

rule_range_secs ==
    DSLikelyRangeRule(PyStr(<<"%", "S">>), <<0, 59>>, 0, -1)

rule_pattern_hms ==
    DSPatternRule(<<PyTuple(<<<<"%", "H">>, <<"%", "I">>>>), PyStr(<<":">>), PyStr(<<"%", "M">>), PyStr(<<":">>), PyStr(<<"%", "S">>)>>,
        1, 0, 3, 0)

rule_pattern_hm ==
    DSPatternRule(<<PyTuple(<<<<"%", "H">>, <<"%", "I">>>>), PyStr(<<":">>), PyStr(<<"%", "M">>)>>,
        1, 0, 1, 0)

rule_pattern_12hr ==
    DSPatternRule(<<PyStr(<<"%", "I">>), PyStr(<<"%", "M">>), PyStr(<<"%", "p">>)>>,
        4, 0, 3, 0)

rule_pattern_tz ==
    DSPatternRule(<<PyStr(<<"%", "Z">>), PyStr(<<"%", "z">>)>>,
        1, 0, 2, 0)

rule_pattern_US_date ==
    DSPatternRule(<<PyTuple(<<<<"%", "m">>, <<"%", "b">>, <<"%", "B">>>>), PyStr(<<"%", "d">>), PyTuple(<<<<"%", "y">>, <<"%", "Y">>>>)>>,
        2, 0, 4, 0)

rule_pattern_US_Bd ==
    DSPatternRule(<<PyStr(<<"%", "d">>), PyTuple(<<<<"%", "m">>, <<"%", "b">>, <<"%", "B">>>>), PyTuple(<<<<"%", "y">>, <<"%", "Y">>>>)>>,
        2, 0, 3, 0)

rule_pattern_EU_date ==
    DSPatternRule(<<PyTuple(<<<<"%", "B">>, <<"%", "b">>>>), PyStr(<<" ">>), PyStr(<<"%", "d">>)>>,
        1, 0, 2, 0)

rule_pattern_EU_dB ==
    DSPatternRule(<<PyStr(<<"%", "d">>), PyStr(<<" ">>), PyTuple(<<<<"%", "B">>, <<"%", "b">>>>)>>,
        1, 0, 2, 0)

rule_pattern_ymd ==
    DSPatternRule(<<PyStr(<<"%", "Y">>), PyStr(<<"-">>), PyStr(<<"%", "m">>), PyStr(<<"-">>), PyStr(<<"%", "d">>)>>,
        1, 0, 4, 0)

rule_pattern_verbose_day ==
    DSPatternRule(<<PyStr(<<"d", "a", "y">>), PyStr(<<"%", "d">>)>>,
        4, 0, 2, 0)

rule_pattern_verbose_month ==
    DSPatternRule(<<PyStr(<<"m", "o", "n", "t", "h">>), PyTuple(<<<<"%", "m">>, <<"%", "b">>, <<"%", "B">>>>)>>,
        4, 0, 2, 0)

rule_pattern_verbose_year ==
    DSPatternRule(<<PyStr(<<"y", "e", "a", "r">>), PyTuple(<<<<"%", "Y">>, <<"%", "y">>>>)>>,
        4, 0, 2, 0)

rule_pattern_verbose_time ==
    DSPatternRule(<<PyStr(<<"t", "i", "m", "e">>), PyTuple(<<<<"%", "H">>, <<"%", "I">>>>)>>,
        4, 0, 2, 0)

rule_pattern_ISO_W ==
    DSPatternRule(<<PyStr(<<"W">>), PyStr(<<"%", "V">>)>>,
        1, 0, 2, 0)

rule_pattern_ISO_date ==
    DSPatternRule(<<PyTuple(<<<<"%", "G">>, <<"%", "g">>>>), PyStr(<<"-">>), PyStr(<<"W">>), PyStr(<<"%", "V">>), PyStr(<<"-">>), PyStr(<<"%", "u">>)>>,
        1, 0, 4, 0)

rule_pattern_ISO_week ==
    DSPatternRule(<<PyTuple(<<<<"%", "G">>, <<"%", "g">>>>), PyStr(<<"-">>), PyStr(<<"W">>), PyStr(<<"%", "V">>)>>,
        1, 0, 3, 0)

rule_pattern_ISO_ordinal ==
    DSPatternRule(<<PyTuple(<<<<"%", "G">>, <<"%", "g">>>>), PyStr(<<"-">>), PyStr(<<"%", "j">>)>>,
        1, 0, 2, 0)

rule_mutexc_24h_12h ==
    DSMutExclusionRule(<<PyStr(<<"%", "H">>), PyTuple(<<<<"%", "I">>, <<"%", "p">>>>)>>,
        0, -2)

rule_mutexc_yr_digits ==
    DSMutExclusionRule(<<PyStr(<<"%", "Y">>), PyStr(<<"%", "y">>), PyStr(<<"%", "G">>), PyStr(<<"%", "g">>)>>,
        0, -2)

rule_mutexc_yr_cent ==
    DSMutExclusionRule(<<PyTuple(<<<<"%", "Y">>, <<"%", "G">>>>), PyStr(<<"%", "C">>)>>,
        0, -2)

rule_mutexc_months ==
    DSMutExclusionRule(<<PyStr(<<"%", "B">>), PyStr(<<"%", "b">>), PyStr(<<"%", "m">>)>>,
        0, -2)

rule_mutexc_wkdays ==
    DSMutExclusionRule(<<PyStr(<<"%", "A">>), PyStr(<<"%", "a">>), PyStr(<<"%", "u">>), PyStr(<<"%", "w">>)>>,
        0, -2)

rule_mutexc_weeks ==
    DSMutExclusionRule(<<PyStr(<<"%", "V">>), PyStr(<<"%", "U">>), PyStr(<<"%", "W">>)>>,
        0, -2)

get_default_numoptions ==
    <<dir_y, dir_Y, dir_m, dir_d, dir_H, dir_I, dir_M, dir_S, dir_g, dir_G,
      dir_V, dir_u, dir_C, dir_w, dir_j, dir_W, dir_U>>

get_default_wordoptions ==
    <<dir_b, dir_B, dir_p, dir_a, dir_A, dir_Z>>

get_default_tzoffsetdirective == dir_z

get_default_rules ==
    <<rule_delim_date, rule_delim_ISO_date, rule_delim_time,
      rule_range_years, rule_range_cent, rule_range_secs, rule_pattern_hms,
      rule_pattern_hm, rule_pattern_12hr, rule_pattern_tz,
      rule_pattern_US_date, rule_pattern_US_Bd, rule_pattern_EU_date,
      rule_pattern_EU_dB, rule_pattern_ymd, rule_pattern_verbose_day,
      rule_pattern_verbose_month, rule_pattern_verbose_year,
      rule_pattern_verbose_time, rule_pattern_ISO_W, rule_pattern_ISO_date,
      rule_pattern_ISO_week, rule_pattern_ISO_ordinal, rule_mutexc_24h_12h,
      rule_mutexc_yr_digits, rule_mutexc_yr_cent, rule_mutexc_months,
      rule_mutexc_wkdays, rule_mutexc_weeks>>


---------------------------------------------------------------------------
(* DSoptions: construction of the candidate model *)

\* init_with_date_tokens, the candidates of one token (allowhere)
AllowHere(tok, numopts, wordopts, tzdirective) ==
    LET NumOk(option) == NumIncludesValue(option, IntOf(tok.text))
        WordOk(option) == WordIncludesValue(option, tok.text)
        nums == SelectSeq(numopts, NumOk)
        words == SelectSeq(wordopts, WordOk)
    IN <<create_decorator(tok.text)>>
       \o (IF is_number(tok) THEN [k \in 1..Len(nums) |-> create_number(nums[k])]
           ELSE IF is_word(tok) THEN [k \in 1..Len(words) |-> create_word(words[k])]
           ELSE <<>>)
       \o (IF is_timezone(tok) THEN <<create_timezone(tzdirective)>> ELSE <<>>)

\* numrange recorded for every number token, whether or not an option matched
NumRangeHere_AnyNumber(tok, numopts) ==
    IF is_number(tok) THEN <<IntOf(tok.text), IntOf(tok.text)>> ELSE None

\* init_with_date_tokens, the observed range of one token (numrange)
NumRangeHere(tok, numopts) ==
    IF is_number(tok)
       /\ \E k \in 1..Len(numopts) : NumIncludesValue(numopts[k], IntOf(tok.text))
    THEN <<IntOf(tok.text), IntOf(tok.text)>>
    ELSE None

\* init_with_date_tokens: self.allowed after the loop (it is [] before)
InitAllowed(date_tokens, numopts, wordopts, tzdirective) ==
    [i \in 1..Len(date_tokens) |->
        AllowHere(date_tokens[i], numopts, wordopts, tzdirective)]

\* init_with_date_tokens: self.numranges after the loop
InitNumRanges(date_tokens, numopts) ==
    [i \in 1..Len(date_tokens) |-> NumRangeHere(date_tokens[i], numopts)]

---------------------------------------------------------------------------
(* DSoptions: culling *)

\* a directive candidate checked by kind alone, not by the sample's value
CullKeeps_KindOnly(tok, dtok) ==
    IF is_decorator(tok) THEN tok.text = dtok.text ELSE tok.kind = dtok.kind

\* the decorator test inverted: the Literal is deleted when the texts agree
CullKeeps_InvertedLiteral(tok, dtok) ==
    IF is_decorator(tok) THEN tok.text # dtok.text
    ELSE IF tok.kind # dtok.kind THEN FALSE
    ELSE IF is_number(dtok) THEN NumIncludesValue(tok.option, IntOf(dtok.text))
    ELSE IF is_word(dtok) THEN WordIncludesValue(tok.option, dtok.text)
    ELSE TRUE

\* a decorator candidate checked by kind, like a directive, not by its text
CullKeeps_LiteralByKind(tok, dtok) ==
    IF tok.kind # dtok.kind THEN FALSE
    ELSE IF is_decorator(tok) THEN tok.text = dtok.text
    ELSE IF is_number(dtok) THEN NumIncludesValue(tok.option, IntOf(dtok.text))
    ELSE IF is_word(dtok) THEN WordIncludesValue(tok.option, dtok.text)
    ELSE TRUE

\* cull_with_date_tokens: candidate tok survives the sample token dtok
CullKeeps(tok, dtok) ==
    IF is_decorator(tok) THEN tok.text = dtok.text
    ELSE IF tok.kind # dtok.kind THEN FALSE
    ELSE IF is_number(dtok) THEN NumIncludesValue(tok.option, IntOf(dtok.text))
    ELSE IF is_word(dtok) THEN WordIncludesValue(tok.option, dtok.text)
    ELSE TRUE

\* cull_with_date_tokens: candidate tok widens the observed range with dtok
CullWidens(tok, dtok) ==
    /\ ~is_decorator(tok)
    /\ tok.kind = dtok.kind
    /\ is_number(dtok)
    /\ NumIncludesValue(tok.option, IntOf(dtok.text))

\* the range overwritten by the latest value
Widened_Overwrite(range, number) == <<number, number>>

\* the range after min(number, r[0]) and max(number, r[1])
Widened(range, number) == <<Min(number, range[1]), Max(number, range[2])>>

\* itrrange of cull_with_date_tokens
ItrRange(alw, date_tokens) == Min(Len(alw), Len(date_tokens))

\* cull_with_date_tokens subscripts numranges[i] where it is None (TypeError)
CullRaises(alw, rng, date_tokens) ==
    \E i \in 1..ItrRange(alw, date_tokens) :
        /\ rng[i] = None
        /\ \E j \in 1..Len(alw[i]) : CullWidens(alw[i][j], date_tokens[i])

\* self.allowed cut to the Positions the sample reaches
CullAllowed_Truncates(alw, date_tokens) ==
    [i \in 1..ItrRange(alw, date_tokens) |->
        LET Keeps(tok) == CullKeeps(tok, date_tokens[i])
        IN SelectSeq(alw[i], Keeps)]

\* cull_with_date_tokens: self.allowed afterwards
CullAllowed(alw, date_tokens) ==
    [i \in 1..Len(alw) |->
        IF i <= ItrRange(alw, date_tokens)
        THEN LET Keeps(tok) == CullKeeps(tok, date_tokens[i])
             IN SelectSeq(alw[i], Keeps)
        ELSE alw[i]]

\* cull_with_date_tokens: self.numranges afterwards
CullNumRanges(alw, rng, date_tokens) ==
    [i \in 1..Len(rng) |->
        IF /\ i <= ItrRange(alw, date_tokens)
           /\ rng[i] # None
           /\ \E j \in 1..Len(alw[i]) : CullWidens(alw[i][j], date_tokens[i])
        THEN Widened(rng[i], IntOf(date_tokens[i].text))
        ELSE rng[i]]

\* the decorators left in place
CullDecoratorsAt_KeepAll(toklist) == toklist

\* cull_decorators, one Position: drop the decorators where a directive remains
CullDecoratorsAt(toklist) ==
    LET founddir == \E j \in 1..Len(toklist) : ~is_decorator(toklist[j])
        founddec == \E j \in 1..Len(toklist) : is_decorator(toklist[j])
        IsDirective(tok) == ~is_decorator(tok)
    IN IF founddir /\ founddec THEN SelectSeq(toklist, IsDirective) ELSE toklist

\* cull_decorators: self.allowed afterwards
CullDecoratorsAllowed(alw) == [i \in 1..Len(alw) |-> CullDecoratorsAt(alw[i])]

---------------------------------------------------------------------------
(* Candidates are Python objects compared by identity; a candidate is named *)
(* here by its place <<i, j>>: Position i, j-th in that Position's list.    *)

\* every candidate of the model, in the order of `for toklist ... for tok`
AllRefs(alw) ==
    Concat([i \in 1..Len(alw) |-> [j \in 1..Len(alw[i]) |-> <<i, j>>]])

TokAt(alw, ref) == alw[ref[1]][ref[2]]

\* the first of refs whose score is the highest (`tok.score > high.score`
\* replaces the running best only on a strictly higher score); None if empty
FirstMaxRef(alw, refs) ==
    IF refs = <<>> THEN None
    ELSE refs[CHOOSE k \in 1..Len(refs) :
                /\ \A l \in 1..Len(refs) :
                       TokAt(alw, refs[l]).score <= TokAt(alw, refs[k]).score
                /\ \A l \in 1..(k - 1) :
                       TokAt(alw, refs[l]).score < TokAt(alw, refs[k]).score]

\* how many times ref occurs in a list of refs
RECURSIVE CountIn(_, _)
CountIn(ref, refs) ==
    IF refs = <<>> THEN 0
    ELSE B2I(Head(refs) = ref) + CountIn(ref, Tail(refs))

\* tok.score += Delta(i, j) for every candidate
AddScores(alw, Delta(_, _)) ==
    [i \in 1..Len(alw) |->
        [j \in 1..Len(alw[i]) |-> [alw[i][j] EXCEPT !.score = @ + Delta(i, j)]]]

\* get_max_score with `>=` for `>`: the last of the tied winners
get_max_score_LastTie(toklist) ==
    IF toklist = <<>> THEN 0
    ELSE CHOOSE k \in 1..Len(toklist) :
            /\ \A l \in 1..Len(toklist) : toklist[l].score <= toklist[k].score
            /\ \A l \in (k + 1)..Len(toklist) : toklist[l].score < toklist[k].score

\* DStoken.get_max_score: the place in toklist of the winner, 0 for None
get_max_score(toklist) ==
    IF toklist = <<>> THEN 0
    ELSE CHOOSE k \in 1..Len(toklist) :
            /\ \A l \in 1..Len(toklist) : toklist[l].score <= toklist[k].score
            /\ \A l \in 1..(k - 1) : toklist[l].score < toklist[k].score

\* DStoken.get_all_max_score: the places in toklist of the tied winners
get_all_max_score(toklist) ==
    LET IsMax(k) == \A l \in 1..Len(toklist) : toklist[l].score <= toklist[k].score
    IN SelectSeq([k \in 1..Len(toklist) |-> k], IsMax)

\* DStoken.get_token_with_text(toklist, text) is not None
HasTokenWithText(toklist, text) ==
    \E j \in 1..Len(toklist) : IsSubstr(toklist[j].text, text)

---------------------------------------------------------------------------
(* DSDelimiterRule.apply *)

\* the Positions appended to `adjacent`
AdjacentPositions(rule, alw) ==
    LET delimiters == PyIter(rule.delimiters)
        HasDelim(i) == \E d \in 1..Len(delimiters) :
                           HasTokenWithText(alw[i], delimiters[d])
    IN {i \in 1..Len(alw) :
           \/ i + 1 <= Len(alw) /\ HasDelim(i + 1)
           \/ i - 1 >= 1 /\ HasDelim(i - 1)}

\* `toklist in adjacent`: list equality, which holds for the list itself and
\* between two empty lists (candidates are compared by identity)
InAdjacent(alw, i, adjacent) ==
    \/ i \in adjacent
    \/ alw[i] = <<>> /\ \E k \in adjacent : alw[k] = <<>>

\* positive reinforcement given whether or not the Position is adjacent
DelimiterApply_NoAdjacency(rule, alw) ==
    LET Delta(i, j) ==
            IF PyIn(alw[i][j].text, rule.directives) THEN rule.posscore ELSE 0
    IN AddScores(alw, Delta)

DelimiterApply(rule, alw) ==
    LET adjacent == AdjacentPositions(rule, alw)
        Delta(i, j) ==
            IF ~PyIn(alw[i][j].text, rule.directives) THEN 0
            ELSE IF InAdjacent(alw, i, adjacent) THEN rule.posscore
            ELSE rule.negscore
    IN AddScores(alw, Delta)

---------------------------------------------------------------------------
(* DSLikelyRangeRule.apply *)

\* the candidates the rule scores
LikelyRangeTargets(rule, tok) ==
    tok.kind = KIND_NUMBER /\ PyIn(tok.text, rule.directives)

\* options.numranges[i][0] is read where numranges[i] is None (TypeError)
LikelyRangeRaises(rule, alw, rng) ==
    \E i \in 1..Len(alw) :
        /\ rng[i] = None
        /\ \E j \in 1..Len(alw[i]) : LikelyRangeTargets(rule, alw[i][j])

\* only the observed minimum is held against the likely range
LikelyRangeApply_MinOnly(rule, alw, rng) ==
    LET Delta(i, j) ==
            IF ~LikelyRangeTargets(rule, alw[i][j]) THEN 0
            ELSE IF rng[i][1] >= rule.likelyrange[1]
                 THEN rule.posscore
                 ELSE rule.negscore
    IN AddScores(alw, Delta)

LikelyRangeApply(rule, alw, rng) ==
    LET Delta(i, j) ==
            IF ~LikelyRangeTargets(rule, alw[i][j]) THEN 0
            ELSE IF /\ rng[i][1] >= rule.likelyrange[1]
                    /\ rng[i][2] <= rule.likelyrange[2]
                 THEN rule.posscore
                 ELSE rule.negscore
    IN AddScores(alw, Delta)

---------------------------------------------------------------------------
(* DSPatternRule.apply *)

\* the scan's state before the first Position
PatternStart == [onarg |-> 0, counter |-> 0, current |-> <<>>, ordered |-> <<>>]

\* the partial match given up one Position early (>= for >)
PatternTimeout_OffByOne(rule, st) ==
    IF st.current = <<>> THEN st
    ELSE IF st.counter + 1 >= rule.maxdistance
         THEN [st EXCEPT !.onarg = 0, !.counter = 0, !.current = <<>>]
         ELSE [st EXCEPT !.counter = @ + 1]

\* the top of the loop body: give up the partial match after maxdistance
PatternTimeout(rule, st) ==
    IF st.current = <<>> THEN st
    ELSE IF st.counter + 1 > rule.maxdistance
         THEN [st EXCEPT !.onarg = 0, !.counter = 0, !.current = <<>>]
         ELSE [st EXCEPT !.counter = @ + 1]

\* minmatchscore held against the score the candidate was created with
PatternMatches_InitialScore(rule, tok, onarg) ==
    /\ \/ is_decorator(tok)
       \/ (IF tok.kind \in {KIND_NUMBER, KIND_WORD} THEN tok.option.common ELSE 0)
              >= rule.minmatchscore
    /\ PyIn(tok.text, rule.sequence[onarg + 1])

\* a candidate matches the sequence element the scan is on
PatternMatches(rule, tok, onarg) ==
    /\ tok.score >= rule.minmatchscore \/ is_decorator(tok)
    /\ PyIn(tok.text, rule.sequence[onarg + 1])

\* one iteration of `for toklist in options.allowed`, at Position i
PatternStep(rule, alw, i, st0) ==
    LET st == PatternTimeout(rule, st0)
        Matches(j) == PatternMatches(rule, alw[i][j], st.onarg)
        found == SelectSeq([j \in 1..Len(alw[i]) |-> j], Matches)
        current == st.current \o [k \in 1..Len(found) |-> <<i, found[k]>>]
    IN IF found = <<>> THEN st
       ELSE IF st.onarg + 1 = Len(rule.sequence)
            THEN [onarg |-> 0, counter |-> 0, current |-> current,
                  ordered |-> st.ordered \o current]
            ELSE [onarg |-> st.onarg + 1, counter |-> 0, current |-> current,
                  ordered |-> st.ordered]

RECURSIVE PatternScan(_, _, _, _)
PatternScan(rule, alw, i, st) ==
    IF i > Len(alw) THEN st
    ELSE \* the loop body at Position i runs before the scan moves on
         CHOOSE out \in { PatternScan(rule, alw, i + 1, next) :
                              next \in {PatternStep(rule, alw, i, st)} } : TRUE

\* ordered_toks after the scan
OrderedToks(rule, alw) == PatternScan(rule, alw, 1, PatternStart).ordered

\* the number of sequence elements the text is `in`
PatternElementsWith(rule, text) ==
    Cardinality({k \in 1..Len(rule.sequence) : PyIn(text, rule.sequence[k])})

PatternApply(rule, alw) ==
    LET ordered_toks == OrderedToks(rule, alw)
        Delta(i, j) ==
            rule.posscore * CountIn(<<i, j>>, ordered_toks)
            + (IF /\ ~is_decorator(alw[i][j])
                  /\ CountIn(<<i, j>>, ordered_toks) = 0
               THEN rule.negscore * PatternElementsWith(rule, alw[i][j].text)
               ELSE 0)
    IN AddScores(alw, Delta)

---------------------------------------------------------------------------
(* DSMutExclusionRule.apply *)

\* matchedtoks[e]: the highest-scoring candidate of group element e
MatchedTok(rule, alw, e) ==
    LET Belongs(ref) == PyIn(TokAt(alw, ref).text, rule.directives[e])
    IN FirstMaxRef(alw, SelectSeq(AllRefs(alw), Belongs))

\* highest_index, 0 when highest_tok is None
HighestIndex(rule, alw) ==
    LET some == {e \in 1..Len(rule.directives) : MatchedTok(rule, alw, e) # None}
        Score(e) == TokAt(alw, MatchedTok(rule, alw, e)).score
    IN IF some = {} THEN 0
       ELSE CHOOSE e \in some :
                /\ \A f \in some : Score(f) <= Score(e)
                /\ \A f \in some : f < e => Score(f) < Score(e)

\* the rule culling the candidates of the losing elements instead of
\* lowering their scores
MutExclusionApply_Cull(rule, alw) ==
    LET highest_index == HighestIndex(rule, alw)
        Loses(tok) ==
            /\ highest_index # 0
            /\ \E e \in 1..Len(rule.directives) :
                   e # highest_index /\ PyIn(tok.text, rule.directives[e])
        Keeps(tok) == ~Loses(tok)
    IN [i \in 1..Len(alw) |-> SelectSeq(alw[i], Keeps)]

MutExclusionApply(rule, alw) ==
    LET highest_index == HighestIndex(rule, alw)
        Delta(i, j) ==
            IF highest_index = 0 THEN 0
            ELSE rule.posscore
                   * B2I(PyIn(alw[i][j].text, rule.directives[highest_index]))
                 + rule.negscore
                   * Cardinality({e \in 1..Len(rule.directives) :
                                     /\ e # highest_index
                                     /\ PyIn(alw[i][j].text, rule.directives[e])})
    IN AddScores(alw, Delta)

---------------------------------------------------------------------------
(* DSoptions.apply_rules: rule.apply(self), by the rule's class *)

RuleRaises(rule, alw, rng) ==
    rule.type = "likelyrange" /\ LikelyRangeRaises(rule, alw, rng)

RuleApply(rule, alw, rng) ==
    CASE rule.type = "delimiter" -> DelimiterApply(rule, alw)
      [] rule.type = "likelyrange" -> LikelyRangeApply(rule, alw, rng)
      [] rule.type = "pattern" -> PatternApply(rule, alw)
      [] rule.type = "mutexclusion" -> MutExclusionApply(rule, alw)

---------------------------------------------------------------------------
(* DSoptions.penalize_duplicates *)

\* the dupepenalty process() passes
DUPEPENALTY == -2

\* first pass: the texts that are the solitary high score somewhere
SolitaryHighTexts(alw) ==
    {alw[i][get_all_max_score(alw[i])[1]].text :
        i \in {p \in 1..Len(alw) :
                  /\ Len(get_all_max_score(alw[p])) = 1
                  /\ ~is_decorator(alw[p][get_all_max_score(alw[p])[1]])}}

\* the first pass without its test of the number of high scores: the
\* solitary high scores themselves are penalized as well
PenalizeFirst_Everywhere(alw, dupepenalty) ==
    LET hightoks == SolitaryHighTexts(alw)
        Delta(i, j) == IF alw[i][j].text \in hightoks THEN dupepenalty ELSE 0
    IN AddScores(alw, Delta)

PenalizeFirst(alw, dupepenalty) ==
    LET hightoks == SolitaryHighTexts(alw)
        Delta(i, j) ==
            IF Len(get_all_max_score(alw[i])) > 1 /\ alw[i][j].text \in hightoks
            THEN dupepenalty ELSE 0
    IN AddScores(alw, Delta)

\* second pass: hightoks[text], the high-scoring candidates with that text
HighRefs(alw, text) ==
    LET IsHigh(ref) ==
            /\ TokAt(alw, ref).text = text
            /\ \E k \in 1..Len(get_all_max_score(alw[ref[1]])) :
                   get_all_max_score(alw[ref[1]])[k] = ref[2]
    IN SelectSeq(AllRefs(alw), IsHigh)

PenalizeSecond(alw, dupepenalty) ==
    LET Delta(i, j) ==
            LET value == HighRefs(alw, alw[i][j].text)
            IN IF value # <<>> /\ FirstMaxRef(alw, value) # <<i, j>>
               THEN dupepenalty ELSE 0
    IN AddScores(alw, Delta)

penalize_duplicates(alw, dupepenalty) ==
    PenalizeSecond(PenalizeFirst(alw, dupepenalty), dupepenalty)

---------------------------------------------------------------------------
(* DSoptions: format assembly *)

\* get_format_tokens: the winner of every Position that has one
get_format_tokens(alw) ==
    LET NonEmpty(toklist) == toklist # <<>>
        lists == SelectSeq(alw, NonEmpty)
    IN [k \in 1..Len(lists) |-> lists[k][get_max_score(lists[k])]]

\* '%' doubled in every selected text, directives included
FormatText_EscapeAll(tok, replace_percent) ==
    IF replace_percent THEN ReplacePercent(tok.text) ELSE tok.text

\* the text get_format_string adds for one selected token
FormatText(tok, replace_percent) ==
    IF replace_percent /\ is_decorator(tok) THEN ReplacePercent(tok.text)
    ELSE tok.text

\* the count of selected tokens not compared with the count of Positions
AllPositionsValid_Unchecked(tokens, alw) == TRUE

\* validtokens == len(self.allowed)
AllPositionsValid(tokens, alw) == Len(tokens) = Len(alw)

get_format_string(alw, replace_percent, blank_if_unrecognized) ==
    LET tokens == get_format_tokens(alw)
        string == Concat([k \in 1..Len(tokens) |-> FormatText(tokens[k], replace_percent)])
        founddir == \E k \in 1..Len(tokens) : ~is_decorator(tokens[k])
    IN IF ~blank_if_unrecognized \/ (founddir /\ AllPositionsValid(tokens, alw))
       THEN string
       ELSE <<>>

---------------------------------------------------------------------------
(* The tokenizer on its own: every string over TokAlphabet up to MaxLen. *)

TokAlphabet == {"1", "a", "-", "+", ":"}

TokStrings == UNION {[1..n -> TokAlphabet] : n \in 0..MaxLen}

InitTok ==
    /\ tokin \in TokStrings
    /\ tokout = <<>>
    /\ pc = "tokenize"
    /\ dates = <<>>
    /\ formatrules = <<>>
    /\ numoptions = <<>>
    /\ wordoptions = <<>>
    /\ tzoffsetdirective = <<>>
    /\ testcase = <<>>
    /\ allowed = <<>>
    /\ numranges = <<>>
    /\ di = 0
    /\ ri = 0
    /\ result = <<>>
    /\ args = <<>>
    /\ peer = <<>>
    /\ given = <<>>

TokenizeDate ==
    /\ pc = "tokenize"
    /\ tokout' = tokenize_date(tokin)
    /\ pc' = "tokenized"
    /\ UNCHANGED <<dates, formatrules, numoptions, wordoptions, tzoffsetdirective,
                   testcase, allowed, numranges, di, ri, result, args, tokin,
                   peer, given>>

NextTok == TokenizeDate

SpecTok == InitTok /\ [][NextTok]_vars

---------------------------------------------------------------------------
(* The test harness of DateSenseUnitTest.py: Datetest.gendata renders each  *)
(* date with datetime.strftime.                                             *)

\* a non-negative number in decimal, zero-padded to `width` digits
RECURSIVE ZeroPad(_, _)
ZeroPad(n, width) ==
    IF width = 0 THEN <<>>
    ELSE ZeroPad(n \div 10, width - 1)
         \o <<CHOOSE c \in DigitChars : DigitVal(c) = n % 10>>

\* what strftime writes for the directive letter c
StrftimeField(date, c) ==
    CASE c = "Y" -> ZeroPad(date.year, 4)
      [] c = "y" -> ZeroPad(date.year % 100, 2)
      [] c = "m" -> ZeroPad(date.month, 2)
      [] c = "d" -> ZeroPad(date.day, 2)
      [] c = "H" -> ZeroPad(date.hour, 2)
      [] c = "M" -> ZeroPad(date.minute, 2)
      [] c = "S" -> ZeroPad(date.second, 2)
      [] c = "%" -> <<"%">>

\* datetime.strftime(date, dateformat)
RECURSIVE Strftime(_, _)
Strftime(date, dateformat) ==
    IF dateformat = <<>> THEN <<>>
    ELSE IF Head(dateformat) = "%" /\ Len(dateformat) >= 2
         THEN StrftimeField(date, dateformat[2])
              \o Strftime(date, SubSeq(dateformat, 3, Len(dateformat)))
         ELSE <<Head(dateformat)>> \o Strftime(date, Tail(dateformat))

\* Datetest.gendata
gendata(datetimes, dateformat) ==
    [k \in 1..Len(datetimes) |-> Strftime(datetimes[k], dateformat)]

datetime(year, month, day, hour, minute, second) ==
    [year |-> year, month |-> month, day |-> day,
     hour |-> hour, minute |-> minute, second |-> second]

---------------------------------------------------------------------------
(* The session: DSoptions(...), initialize, process, get_format_string.     *)

\* self.numoptions, self.wordoptions, self.tzoffsetdirective, self.formatrules
\* and the harness's case are set at construction and never assigned again
config == <<formatrules, numoptions, wordoptions, tzoffsetdirective, testcase, given>>

\* initialize: a single string is turned into a one-element collection
DatesList(d) == IF d.py = "str" THEN <<d.v>> ELSE d.v

\* the pipeline stages at which the object exists and is at rest
Stages == {"culling", "initialized", "processed"}

\* the samples of the direct-input sessions
SampleStrings ==
    { <<>>,
      <<"5">>,
      <<"1", "3">>,
      <<"1", "2", "3", "4", "5">>,
      <<"x">>,
      <<"P", "M">>,
      <<"5", "-", "1", "3">>,
      <<"5", "/", "1", "3">>,
      <<"1", "3", ":", "7", "0", " ", "A", "M">>,
      <<"p", "m", "+", "0", "1", "0", "0">> }

\* the inputs of the unit tests that pass data, not a case
TestData ==
    { PyTuple(<< <<"2", "0", "1", "3", "-", "0", "4", "-", "1", "5", " ",
                   "1", "4", ":", "0", "4", ":", "1", "1">>,
                 <<"2", "0", "1", "3", "-", "1", "0", "-", "2", "5", " ",
                   "1", "0", ":", "5", "0", ":", "1", "3">> >>),
      PyStr(<<"1", "6", " ", "O", "c", "t", " ", "2", "0", "1", "4">>),
      PyTuple(<< <<"M", "o", "n", " ", "S", "e", "p", " ", "a", "m">> >>),
      PyTuple(<< <<"2", "0", "1", "3", "0", "4", "1", "5">>,
                 <<"2", "0", "1", "3", "1", "0", "2", "5">> >>) }

\* every value of `dates` a direct-input session is started with
DirectInputs ==
    {PyStr(s) : s \in SampleStrings}
    \cup {PyTuple(l) : l \in UNION {[1..n -> SampleStrings] : n \in 0..MaxDates}}
    \cup TestData

\* the formats rendered by the round-trip sessions
RoundTripCases ==
    { <<"%", "Y", "-", "%", "m", "-", "%", "d", " ",
        "%", "H", ":", "%", "M", ":", "%", "S">>,
      <<"%", "m", "/", "%", "d", "/", "%", "y", " ", "%", "H", ":", "%", "M">>,
      <<"%", "d">> }

\* the dates they are rendered from: Datetest.defaultData and two more
RoundTripDates ==
    { datetime(2013, 4, 15, 14, 4, 11),
      datetime(2013, 10, 25, 10, 50, 13),
      datetime(2014, 1, 1, 2, 0, 0),
      datetime(2001, 2, 3, 4, 5, 6),
      datetime(1999, 12, 31, 23, 59, 59) }

\* every sequence of RoundTripSamples distinct dates
RoundTripData ==
    {l \in [1..RoundTripSamples -> RoundTripDates] :
        \A a, b \in 1..RoundTripSamples : a # b => l[a] # l[b]}

\* no second object
NoPeer == [pc |-> "none"]

\* an optional argument left out of the call (its default, None), and one
\* given as a list or tuple
Omitted == [py |-> "None"]
PyList(v) == [py |-> "list", v |-> v]

\* detect_format(dates): none of the optional arguments is given
NoArguments ==
    [formatRules |-> Omitted, numOptions |-> Omitted,
     wordOptions |-> Omitted, tzOffsetDirective |-> Omitted]

\* detect_format: `arg if arg else default`; None is false, and so is an
\* empty list, tuple or string
ArgOrDefault(arg, default) ==
    IF arg.py # "None" /\ arg.v # <<>> THEN arg.v ELSE default

\* the state after DSoptions(formatRules, numOptions, wordOptions, tz), with
\* the arguments detect_format passes when the caller gives none
Init ==
    /\ \/ /\ testcase = None
          /\ dates \in DirectInputs
       \/ /\ testcase \in RoundTripCases
          /\ \E l \in RoundTripData : dates = PyTuple(gendata(l, testcase))
    /\ given = NoArguments
    /\ formatrules = ArgOrDefault(given.formatRules, get_default_rules)
    /\ numoptions = ArgOrDefault(given.numOptions, get_default_numoptions)
    /\ wordoptions = ArgOrDefault(given.wordOptions, get_default_wordoptions)
    /\ tzoffsetdirective =
           ArgOrDefault(given.tzOffsetDirective, get_default_tzoffsetdirective)
    /\ allowed = <<>>
    /\ numranges = <<>>
    /\ pc = "new"
    /\ di = 0
    /\ ri = 0
    /\ result = None
    /\ args = None
    /\ tokin = <<>>
    /\ tokout = <<>>
    /\ peer = NoPeer

\* initialize, up to init_with_date_tokens: dates[0] of an empty collection
\* raises IndexError
InitWithDateTokens ==
    /\ pc = "new"
    /\ IF DatesList(dates) = <<>>
       THEN /\ pc' = "raised"
            /\ UNCHANGED <<allowed, numranges>>
       ELSE LET date_tokens == tokenize_date(DatesList(dates)[1])
            IN /\ allowed' = InitAllowed(date_tokens, numoptions, wordoptions,
                                         tzoffsetdirective)
               /\ numranges' = InitNumRanges(date_tokens, numoptions)
               /\ pc' = "culling"
    /\ UNCHANGED <<dates, config, di, ri, result, args, tokin, tokout, peer>>

\* cull_with_dates, one iteration: cull_with_date_tokens(tokenize_date(date))
CullWithDateTokens ==
    /\ pc = "culling"
    /\ di < Len(DatesList(dates))
    /\ LET date_tokens == tokenize_date(DatesList(dates)[di + 1])
       IN IF CullRaises(allowed, numranges, date_tokens)
          THEN /\ pc' = "raised"
               /\ UNCHANGED <<allowed, numranges, di>>
          ELSE /\ allowed' = CullAllowed(allowed, date_tokens)
               /\ numranges' = CullNumRanges(allowed, numranges, date_tokens)
               /\ di' = di + 1
               /\ pc' = pc
    /\ UNCHANGED <<dates, config, ri, result, args, tokin, tokout, peer>>

\* cull_decorators, which ends initialize
CullDecorators ==
    /\ pc = "culling"
    /\ di = Len(DatesList(dates))
    /\ allowed' = CullDecoratorsAllowed(allowed)
    /\ pc' = "initialized"
    /\ UNCHANGED <<dates, config, numranges, di, ri, result, args, tokin, tokout, peer>>

\* apply_rules, one iteration: rule.apply(self)
ApplyRule ==
    /\ pc = "initialized"
    /\ ri < Len(formatrules)
    /\ IF RuleRaises(formatrules[ri + 1], allowed, numranges)
       THEN /\ pc' = "raised"
            /\ UNCHANGED <<allowed, ri>>
       ELSE /\ allowed' = RuleApply(formatrules[ri + 1], allowed, numranges)
            /\ ri' = ri + 1
            /\ pc' = pc
    /\ UNCHANGED <<dates, config, numranges, di, result, args, tokin, tokout, peer>>

\* process, after apply_rules: penalize_duplicates(dupepenalty)
PenalizeDuplicates ==
    /\ pc = "initialized"
    /\ ri = Len(formatrules)
    /\ allowed' = penalize_duplicates(allowed, DUPEPENALTY)
    /\ pc' = "processed"
    /\ UNCHANGED <<dates, config, numranges, di, ri, result, args, tokin, tokout, peer>>

\* get_format_string(replace_percent, blank_if_unrecognized), called on the
\* object at any stage after construction, or once more after a first call
GetFormatString ==
    /\ \/ pc \in Stages /\ ri \in {0, Len(formatrules)}
       \/ pc = "done"
    /\ \E replace_percent, blank_if_unrecognized \in BOOLEAN :
          /\ result' = get_format_string(allowed, replace_percent,
                                         blank_if_unrecognized)
          /\ args' = [replace_percent |-> replace_percent,
                      blank_if_unrecognized |-> blank_if_unrecognized,
                      at |-> IF pc = "done" THEN args.at ELSE pc]
    /\ pc' = "done"
    /\ UNCHANGED <<dates, config, allowed, numranges, di, ri, tokin, tokout, peer>>

Next ==
    \/ InitWithDateTokens
    \/ CullWithDateTokens
    \/ CullDecorators
    \/ ApplyRule
    \/ PenalizeDuplicates
    \/ GetFormatString

Spec == Init /\ [][Next]_vars

---------------------------------------------------------------------------
(* Two sessions run side by side: each is a DSoptions object of its own,   *)
(* both read the rule and option objects of the DSoptions class.           *)

\* the model of a session run alone on the samples d, after k culling steps
RECURSIVE AloneCulled(_, _)
AloneCulled(d, k) ==
    IF k = 0
    THEN [allowed |-> InitAllowed(tokenize_date(DatesList(d)[1]),
                                  get_default_numoptions, get_default_wordoptions,
                                  get_default_tzoffsetdirective),
          numranges |-> InitNumRanges(tokenize_date(DatesList(d)[1]),
                                      get_default_numoptions)]
    ELSE LET m == AloneCulled(d, k - 1)
             date_tokens == tokenize_date(DatesList(d)[k])
         IN [allowed |-> CullAllowed(m.allowed, date_tokens),
             numranges |-> CullNumRanges(m.allowed, m.numranges, date_tokens)]

\* the same candidates, written out Position by Position
RECURSIVE WrittenOut(_, _)
WrittenOut(alw, n) ==
    IF n = 0 THEN <<>>
    ELSE Append(WrittenOut(alw, n - 1), SubSeq(alw[n], 1, Len(alw[n])))

\* the candidates alw after the default rules lo..hi, in order, with the
\* observed ranges rng (the list is split in halves to keep the evaluation
\* shallow)
RECURSIVE AloneRuled(_, _, _, _)
AloneRuled(alw, rng, lo, hi) ==
    IF lo > hi THEN alw
    ELSE IF lo = hi
    THEN CHOOSE after \in
             { WrittenOut(ruled, Len(ruled)) :
                   ruled \in {RuleApply(get_default_rules[lo], alw, rng)} } : TRUE
    ELSE CHOOSE after \in
             { AloneRuled(half, rng, (lo + hi) \div 2 + 1, hi) :
                   half \in {AloneRuled(alw, rng, lo, (lo + hi) \div 2)} } : TRUE

\* its candidates after initialize and apply_rules
AloneInitialized(d) ==
    CHOOSE after \in
        { AloneRuled(WrittenOut(culled, Len(culled)), m.numranges,
                     1, Len(get_default_rules)) :
              <<m, culled>> \in { <<c, CullDecoratorsAllowed(c.allowed)>> :
                                    c \in {AloneCulled(d, Len(DatesList(d)))} } } :
            TRUE

\* the string detect_format(d).get_format_string() returns when run alone
AloneResult(d) ==
    CHOOSE string \in
        { get_format_string(WrittenOut(processed, Len(processed)), TRUE, TRUE) :
              processed \in { penalize_duplicates(ruled, DUPEPENALTY) :
                                 ruled \in {AloneInitialized(d)} } } :
            TRUE

\* self.allowed of the new object is a list another object already holds
NewAllowed_ClassLevel == allowed

\* self.allowed = [] in __init__: a list of the new object alone
NewAllowed == <<>>

\* the second session before detect_format(d) constructs its object; alone
\* records, for later comparison, what the first session (on d1) and the
\* second (on d) return when each is run with no other session
NewPeer(d1, d) ==
    [dates |-> d, allowed |-> <<>>, numranges |-> <<>>, pc |-> "new",
     di |-> 0, ri |-> 0, result |-> None,
     alone |-> [first |-> AloneResult(d1), second |-> AloneResult(d)]]

\* the samples of the paired sessions: test_04's data, test_17's single
\* string and a pair of samples that disagree on a separator
PairInputs ==
    { PyTuple(<< <<"2", "0", "1", "3", "-", "0", "4", "-", "1", "5", " ",
                   "1", "4", ":", "0", "4", ":", "1", "1">>,
                 <<"2", "0", "1", "3", "-", "1", "0", "-", "2", "5", " ",
                   "1", "0", ":", "5", "0", ":", "1", "3">> >>),
      PyStr(<<"1", "6", " ", "O", "c", "t", " ", "2", "0", "1", "4">>),
      PyTuple(<< <<"5", "-", "1", "3">>, <<"5", "/", "1", "3">> >>) }

InitPair ==
    /\ testcase = None
    /\ dates \in PairInputs
    /\ peer \in {NewPeer(dates, d) : d \in PairInputs}
    /\ given = NoArguments
    /\ formatrules = ArgOrDefault(given.formatRules, get_default_rules)
    /\ numoptions = ArgOrDefault(given.numOptions, get_default_numoptions)
    /\ wordoptions = ArgOrDefault(given.wordOptions, get_default_wordoptions)
    /\ tzoffsetdirective =
           ArgOrDefault(given.tzOffsetDirective, get_default_tzoffsetdirective)
    /\ allowed = <<>>
    /\ numranges = <<>>
    /\ pc = "new"
    /\ di = 0
    /\ ri = 0
    /\ result = None
    /\ args = None
    /\ tokin = <<>>
    /\ tokout = <<>>

\* the next pipeline step of the second session, detect_format followed by
\* get_format_string(): DSoptions(...) and the methods of the first object,
\* on its own attributes and the shared rule and option objects
PeerStep ==
    /\ peer.pc \in {"new"} \cup Stages
    /\ LET samples == DatesList(peer.dates)
           date_tokens == tokenize_date(samples[peer.di + 1])
           rule == formatrules[peer.ri + 1]
       IN peer' =
            CASE peer.pc = "new" ->
                   IF samples = <<>> THEN [peer EXCEPT !.pc = "raised"]
                   ELSE [peer EXCEPT
                           !.allowed = NewAllowed \o
                               InitAllowed(tokenize_date(samples[1]), numoptions,
                                           wordoptions, tzoffsetdirective),
                           !.numranges = InitNumRanges(tokenize_date(samples[1]),
                                                       numoptions),
                           !.pc = "culling"]
              [] peer.pc = "culling" /\ peer.di < Len(samples) ->
                   IF CullRaises(peer.allowed, peer.numranges, date_tokens)
                   THEN [peer EXCEPT !.pc = "raised"]
                   ELSE [peer EXCEPT
                           !.allowed = CullAllowed(peer.allowed, date_tokens),
                           !.numranges = CullNumRanges(peer.allowed, peer.numranges,
                                                       date_tokens),
                           !.di = peer.di + 1]
              [] peer.pc = "culling" /\ peer.di = Len(samples) ->
                   [peer EXCEPT !.allowed = CullDecoratorsAllowed(peer.allowed),
                                !.pc = "initialized"]
              [] peer.pc = "initialized" /\ peer.ri < Len(formatrules) ->
                   IF RuleRaises(rule, peer.allowed, peer.numranges)
                   THEN [peer EXCEPT !.pc = "raised"]
                   ELSE [peer EXCEPT
                           !.allowed = RuleApply(rule, peer.allowed, peer.numranges),
                           !.ri = peer.ri + 1]
              [] peer.pc = "initialized" /\ peer.ri = Len(formatrules) ->
                   [peer EXCEPT
                      !.allowed = penalize_duplicates(peer.allowed, DUPEPENALTY),
                      !.pc = "processed"]
              [] peer.pc = "processed" ->
                   [peer EXCEPT
                      !.result = get_format_string(peer.allowed, TRUE, TRUE),
                      !.pc = "done"]
    /\ UNCHANGED <<dates, config, allowed, numranges, pc, di, ri, result, args,
                   tokin, tokout>>

NextPair ==
    \/ Next
    \/ PeerStep

SpecPair == InitPair /\ [][NextPair]_vars

---------------------------------------------------------------------------
(* Sessions with a rule list the caller supplies:                          *)
(* detect_format(dates, formatRules=[rule]).                               *)

\* the rules handed to detect_format, one per session
CallerRules ==
    { DSDelimiterRule(PyTuple(<< <<"%", "d">>, <<"%", "m">> >>),
                      PyTuple(<< <<"-">>, <<"/">> >>), 2, -1),
      DSDelimiterRule(PyTuple(<< <<"%", "d">>, <<"%", "m">> >>),
                      PyTuple(<< <<".", " ">> >>), 2, -1),
      DSLikelyRangeRule(PyTuple(<< <<"%", "Y">>, <<"%", "G">> >>),
                        <<1000, 3000>>, 1, -1),
      rule_range_cent,
      rule_pattern_ISO_W,
      rule_pattern_verbose_day,
      DSPatternRule(<< PyStr(<<"%", "d">>), PyStr(<<"-">>), PyStr(<<"%", "d">>) >>,
                    1, 0, 1, -1),
      DSMutExclusionRule(<< PyStr(<<"%", "d">>), PyStr(<<"%", "m">>) >>, 2, -1),
      rule_mutexc_24h_12h }

\* the samples handed to detect_format
CallerInputs ==
    { PyTuple(<< <<"1", "-", "2", "/", "3">> >>),
      PyTuple(<< <<"5", " ", "1", "3">> >>),
      PyTuple(<< <<"1", " ", "2", "-", "3">> >>),
      PyTuple(<< <<"5", ".", "1", "3">> >>),
      PyTuple(<< <<"5", "-", "1", "3">>, <<"5", "/", "1", "3">> >>),
      PyTuple(<< <<"2", "0", "1", "3">>, <<"3", "0", "0", "1">> >>),
      PyTuple(<< <<"1", "3">> >>),
      PyTuple(<< <<"W", "0", "1", "W", "0", "2">> >>),
      PyTuple(<< <<"W", "0", "1">> >>),
      PyTuple(<< <<"W", "-", "0", "1">> >>),
      PyTuple(<< <<"W", "-", "-", "0", "1">> >>),
      PyTuple(<< <<"5", "%", "X">> >>),
      PyTuple(<< <<"a", " ", "5">> >>),
      PyTuple(<< <<"d", "a", "y", " ", "5">> >>),
      PyTuple(<< <<"i", " ", "I", " ", "2", "0", "1", "3">>, <<"i", " ", "I", " ", "2", "0", "1", "4">> >>),
      PyTuple(<< <<"W", "e", "d", " ", "p", "m">> >>),
      PyTuple(<< <<"p", "m", "+", "0", "1", "0", "0">> >>) }

\* word options handed to detect_format: a weekday matched by any prefix, an
\* AM/PM marker matched by a prefix of three or more characters
CallerWordOptions ==
    << WordOption(<<"%", "A">>, UNCOMMON, dir_A.words, 1),
       WordOption(<<"%", "p">>, COMMON, dir_p.words, 3) >>

InitRule ==
    /\ testcase = None
    /\ dates \in CallerInputs
    /\ \E rules \in
             {<<rule>> : rule \in CallerRules}
             \cup {<< DSDelimiterRule(PyTuple(<< <<"%", "d">>, <<"%", "m">> >>),
                                      PyTuple(<< <<"-">>, <<"/">> >>), 2, -1),
                      DSPatternRule(<< PyStr(<<"%", "m">>),
                                       PyTuple(<< <<"-">>, <<" ">> >>),
                                       PyStr(<<"%", "d">>) >>, 1, 2, 1, 0) >>,
                   <<>>} :
          \E words \in {Omitted, PyList(CallerWordOptions)} :
              given = [NoArguments EXCEPT !.formatRules = PyList(rules),
                                          !.wordOptions = words]
    /\ formatrules = ArgOrDefault(given.formatRules, get_default_rules)
    /\ numoptions = ArgOrDefault(given.numOptions, get_default_numoptions)
    /\ wordoptions = ArgOrDefault(given.wordOptions, get_default_wordoptions)
    /\ tzoffsetdirective =
           ArgOrDefault(given.tzOffsetDirective, get_default_tzoffsetdirective)
    /\ allowed = <<>>
    /\ numranges = <<>>
    /\ pc = "new"
    /\ di = 0
    /\ ri = 0
    /\ result = None
    /\ args = None
    /\ tokin = <<>>
    /\ tokout = <<>>
    /\ peer = NoPeer

SpecRule == InitRule /\ [][Next]_vars

---------------------------------------------------------------------------
(* Properties of the tokenizer, checked under SpecTok. *)

TokTexts == [i \in 1..Len(tokout) |-> tokout[i].text]

\* C5: tokenize_date returns non-empty tokens whose texts, concatenated in
\* order, are the input exactly; the empty string gives the empty sequence.
C5_TokensCoverInput ==
    pc = "tokenized" =>
        /\ Concat(TokTexts) = tokin
        /\ \A i \in 1..Len(tokout) : tokout[i].text # <<>>
        /\ (tokin = <<>> => tokout = <<>>)

\* a string with a merged timezone token between two other tokens
C5_Witness ==
    /\ pc = "tokenized"
    /\ Len(tokout) = 2
    /\ is_word(tokout[1])
    /\ is_timezone(tokout[2])
    /\ Len(tokin) = 1 + 1 + TIMEZONE_LENGTH

\* the tokens of the character-class pass alone
RawTokens == ClassPass(tokin, 1, [text |-> <<>>, kind |-> -1, tokens |-> <<>>])

\* the merge condition as C6 words it, on the character-class tokens: the sign
\* is followed by a numeric token of exactly 4 digits and is not preceded by a
\* numeric token or by a sign token
C6_ShouldMerge(raw, i) ==
    /\ raw[i].kind = KIND_TIMEZONE
    /\ i < Len(raw)
    /\ raw[i + 1].kind = KIND_NUMBER
    /\ Len(raw[i + 1].text) = 4
    /\ (i > 1 => raw[i - 1].kind \notin {KIND_NUMBER, KIND_TIMEZONE})

\* the token C6 expects at place i of the character-class tokens (<<>> for a
\* digit run consumed by a merge)
C6_ExpectedAt(raw, i) ==
    IF i > 1 /\ C6_ShouldMerge(raw, i - 1) THEN <<>>
    ELSE IF C6_ShouldMerge(raw, i)
         THEN <<[raw[i] EXCEPT !.text = raw[i].text \o raw[i + 1].text]>>
    ELSE IF raw[i].kind = KIND_TIMEZONE
         THEN <<[raw[i] EXCEPT !.kind = KIND_DECORATOR]>>
    ELSE <<raw[i]>>

C6_Expected(raw) == Concat([i \in 1..Len(raw) |-> C6_ExpectedAt(raw, i)])

\* C6: a sign token is merged with the next token into one TimezoneOffset
\* token iff it is followed by a numeric token of exactly 4 digits and is not
\* preceded by a numeric token or a sign token; otherwise the sign is a
\* Literal and the digit run stays a Numeric token.
C6_MergeIffContext ==
    pc = "tokenized" => tokout = C6_Expected(RawTokens)

---------------------------------------------------------------------------
(* Properties of the session, checked under Spec. *)

\* get_format_string() with its default arguments has returned, after
\* initialize and process
Detected ==
    /\ pc = "done"
    /\ args.at = "processed"
    /\ args.replace_percent
    /\ args.blank_if_unrecognized

\* the tokens of the reference sample, dates[0]
ReferenceTokens == tokenize_date(DatesList(dates)[1])

\* the tokens of the k-th sample
SampleTokens(k) == tokenize_date(DatesList(dates)[k])

HasDirective(toklist) == \E j \in 1..Len(toklist) : ~is_decorator(toklist[j])
HasNumeric(toklist) == \E j \in 1..Len(toklist) : is_number(toklist[j])
HasLiteral(toklist, text) ==
    \E j \in 1..Len(toklist) : is_decorator(toklist[j]) /\ toklist[j].text = text

C1_DelimitedCases ==
    { <<"%", "Y", "-", "%", "m", "-", "%", "d", " ",
        "%", "H", ":", "%", "M", ":", "%", "S">>,
      <<"%", "m", "/", "%", "d", "/", "%", "y", " ", "%", "H", ":", "%", "M">> }

C2_Samples ==
    PyTuple(<< <<"2", "0", "1", "3", "-", "0", "4", "-", "1", "5", " ",
                 "1", "4", ":", "0", "4", ":", "1", "1">>,
               <<"2", "0", "1", "3", "-", "1", "0", "-", "2", "5", " ",
                 "1", "0", ":", "5", "0", ":", "1", "3">> >>)

\* C2: with the default catalog and the default rules in their default
\* order, the samples "2013-04-15 14:04:11" and "2013-10-25 10:50:13" give
\* "%Y-%m-%d %H:%M:%S".
C2_IsoDateTime ==
    (Detected /\ dates = C2_Samples /\ formatrules = get_default_rules) =>
        result = <<"%", "Y", "-", "%", "m", "-", "%", "d", " ",
                   "%", "H", ":", "%", "M", ":", "%", "S">>

C2_Witness ==
    /\ Detected
    /\ dates = C2_Samples
    /\ testcase = None
    /\ Len(result) = 17

\* the winners of the Positions that have candidates, in Position order
SelectedTokens ==
    [k \in 1..Len(get_format_tokens(allowed)) |-> get_format_tokens(allowed)[k]]

\* no selected token is a directive, or some Position has no candidate left
C3_Unrecognized ==
    \/ \A k \in 1..Len(SelectedTokens) : is_decorator(SelectedTokens[k])
    \/ \E i \in 1..Len(allowed) : allowed[i] = <<>>

\* C3: with blank_if_unrecognized=True, get_format_string returns "" exactly
\* when no selected token is a directive or some Position has no candidate
\* left, and otherwise the concatenation of the selected tokens' texts.
C3_BlankIffUnrecognized ==
    (pc = "done" /\ args.blank_if_unrecognized) =>
        /\ (result = <<>>) <=> C3_Unrecognized
        /\ ~C3_Unrecognized =>
               result = Concat([k \in 1..Len(SelectedTokens) |->
                                   FormatText(SelectedTokens[k], args.replace_percent)])

\* samples that disagree at a Position no directive explains ("5-13" and
\* "5/13"), while directives are selected at the other Positions
C3_Witness ==
    /\ Detected
    /\ result = <<>>
    /\ \E i \in 1..Len(allowed) : allowed[i] = <<>>
    /\ \E k \in 1..Len(SelectedTokens) : ~is_decorator(SelectedTokens[k])

\* C4: initialize -> process -> get_format_string never raises, for any
\* finite sequence of strings.
C4_NeverRaises == pc # "raised"

\* C7 as stated: a Position that has lost its reference Literal holds a
\* directive candidate.
C7_LiteralOrDirective ==
    (pc \in Stages \cup {"done"}) =>
        \A i \in 1..Len(allowed) :
            \/ HasLiteral(allowed[i], ReferenceTokens[i].text)
            \/ HasDirective(allowed[i])

\* some sample culled so far has, at Position i, a text other than the
\* reference text
C7_SampleDiffers(i) ==
    \E k \in 1..di :
        /\ i <= Len(SampleTokens(k))
        /\ SampleTokens(k)[i].text # ReferenceTokens[i].text

\* cull_decorators has run
C7_DecoratorsCulled ==
    \/ pc \in {"initialized", "processed"}
    \/ pc = "done" /\ args.at \in {"initialized", "processed"}

\* C7, amended: each Position holds the Literal with the reference text,
\* unless cull_decorators removed it (a directive candidate then remains), or
\* cull_with_date_tokens removed it because a sample's token text at that
\* Position differs from the reference text (no candidate need remain).
C7_LiteralUnlessCulled ==
    (pc \in Stages \cup {"done"}) =>
        \A i \in 1..Len(allowed) :
            \/ HasLiteral(allowed[i], ReferenceTokens[i].text)
            \/ C7_DecoratorsCulled /\ HasDirective(allowed[i])
            \/ C7_SampleDiffers(i)

\* culling has emptied a Position whose sample text differed, while another
\* Position still holds its reference Literal beside directives
C7_Witness ==
    /\ pc = "culling"
    /\ di = Len(DatesList(dates))
    /\ \E i \in 1..Len(allowed) : allowed[i] = <<>> /\ C7_SampleDiffers(i)
    /\ \E i \in 1..Len(allowed) :
           /\ HasLiteral(allowed[i], ReferenceTokens[i].text)
           /\ HasDirective(allowed[i])

\* C8: after init_with_date_tokens, len(allowed) = len(numranges) = the
\* token count of the first sample, at every later step.
C8_PositionCountFixed ==
    (pc \in Stages \cup {"done"}) =>
        /\ Len(allowed) = Len(ReferenceTokens)
        /\ Len(numranges) = Len(ReferenceTokens)

\* processed after culling a one-token reference with a longer sample
C8_Witness ==
    /\ pc = "processed"
    /\ Len(allowed) = 1
    /\ \E k \in 1..Len(DatesList(dates)) : Len(SampleTokens(k)) > Len(allowed)

\* C9: observed ranges only widen: in every step, a Position's min never
\* increases and its max never decreases (and a range is never dropped).
C9_RangesOnlyWiden ==
    [][\A i \in 1..Len(numranges) :
          numranges[i] # None =>
              /\ i <= Len(numranges')
              /\ numranges'[i] # None
              /\ numranges'[i][1] <= numranges[i][1]
              /\ numranges'[i][2] >= numranges[i][2]]_vars

\* a range that a later sample has widened on both sides of the reference
C9_Witness ==
    /\ pc = "culling"
    /\ di = 3
    /\ \E i \in 1..Len(numranges) :
           /\ numranges[i] # None
           /\ numranges[i][1] < IntOf(ReferenceTokens[i].text)
           /\ numranges[i][2] > IntOf(ReferenceTokens[i].text)

\* C10 as stated: a Position has a range iff it holds a Numeric candidate.
C10_RangeIffNumeric ==
    (pc \in Stages \cup {"done"}) =>
        \A i \in 1..Len(allowed) :
            (numranges[i] # None) <=> HasNumeric(allowed[i])

\* C10, amended: a Position that holds a Numeric candidate has a range (a
\* Position without a range holds none), and right after construction the
\* two coincide; culling can remove every Numeric candidate of a Position
\* and leaves its range in place.
C10_NumericHasRange ==
    (pc \in Stages \cup {"done"}) =>
        \A i \in 1..Len(allowed) :
            /\ HasNumeric(allowed[i]) => numranges[i] # None
            /\ (pc = "culling" /\ di = 0) =>
                   (numranges[i] # None <=> HasNumeric(allowed[i]))

\* after culling: one Position keeps Numeric candidates and its range,
\* another keeps a range and has lost every Numeric candidate
C10_Witness ==
    /\ pc = "culling"
    /\ di = Len(DatesList(dates))
    /\ \E i \in 1..Len(allowed) : HasNumeric(allowed[i]) /\ numranges[i] # None
    /\ \E i \in 1..Len(allowed) : ~HasNumeric(allowed[i]) /\ numranges[i] # None

\* every sample culled so far is the reference sample itself
C11_OnlyReferenceCulled ==
    /\ pc = "culling"
    /\ \A k \in 1..di : DatesList(dates)[k] = DatesList(dates)[1]

\* C11: culling with samples identical to the reference removes no
\* candidate and changes no range or score: the model after culling s any
\* number of times is the model init_with_date_tokens built from s, and so
\* initialize([s]) and initialize([s, s]) end with the same model.
C11_CullingIdempotent ==
    /\ C11_OnlyReferenceCulled =>
           /\ allowed = InitAllowed(ReferenceTokens, numoptions, wordoptions,
                                    tzoffsetdirective)
           /\ numranges = InitNumRanges(ReferenceTokens, numoptions)
    /\ (/\ pc = "initialized" /\ ri = 0
        /\ \A k \in 1..di : DatesList(dates)[k] = DatesList(dates)[1]) =>
           /\ allowed = CullDecoratorsAllowed(
                            InitAllowed(ReferenceTokens, numoptions, wordoptions,
                                        tzoffsetdirective))
           /\ numranges = InitNumRanges(ReferenceTokens, numoptions)

\* "13:70 AM" culled twice with itself: Numeric, Literal and Alphabetic
\* candidates and a range are all still in place
C11_Witness ==
    /\ C11_OnlyReferenceCulled
    /\ di = 2
    /\ Len(allowed) = 5
    /\ HasNumeric(allowed[1]) /\ numranges[1] = <<13, 13>>
    /\ HasLiteral(allowed[2], <<":">>)
    /\ \E j \in 1..Len(allowed[5]) : is_word(allowed[5][j])

---------------------------------------------------------------------------
(* Properties of two sessions run side by side, checked under SpecPair. *)

\* the attributes of the first object
C12_Own == <<allowed, numranges, pc, di, ri, result, args>>

\* the rule and option objects both sessions read
C12_Shared == <<formatrules, numoptions, wordoptions, tzoffsetdirective>>

\* each session, while culling, holds the model it builds alone, and ends
\* with the string it returns alone
C12_AsWhenAlone ==
    /\ pc = "culling" =>
           /\ allowed = AloneCulled(dates, di).allowed
           /\ numranges = AloneCulled(dates, di).numranges
    /\ peer.pc = "culling" =>
           /\ peer.allowed = AloneCulled(peer.dates, peer.di).allowed
           /\ peer.numranges = AloneCulled(peer.dates, peer.di).numranges
    /\ Detected => result = peer.alone.first
    /\ peer.pc = "done" => peer.result = peer.alone.second

\* C12: with the pipeline steps of two sessions interleaved in any order, no
\* step of one session changes the other session's Positions, scores or
\* ranges, nor the shared catalog and rule objects, and each session returns
\* the format string it returns when run alone.
C12_SessionsIndependent ==
    /\ [][/\ peer' # peer => C12_Own' = C12_Own
          /\ C12_Own' # C12_Own => peer' = peer
          /\ C12_Shared' = C12_Shared]_vars
    /\ []C12_AsWhenAlone

\* both sessions have returned, on different samples and with different,
\* recognised formats
C12_Witness ==
    /\ Detected
    /\ peer.pc = "done"
    /\ peer.dates # dates
    /\ result # peer.result
    /\ result # <<>>
    /\ peer.result # <<>>

---------------------------------------------------------------------------
(* Further properties of the session, checked under Spec. *)

HasAnyLiteral(toklist) == \E j \in 1..Len(toklist) : is_decorator(toklist[j])
IsDirective(tok) == ~is_decorator(tok)

\* what C13 says cull_decorators leaves of one Position
C13_Expected(toklist) ==
    IF HasDirective(toklist) THEN SelectSeq(toklist, IsDirective) ELSE toklist

\* C13: cull_decorators removes every Literal wherever a directive candidate
\* survived culling and leaves the other Positions unchanged; afterwards no
\* Position holds both a Literal and a directive, and the format renders a
\* Literal only at a Position with no directive candidate.
C13_LiteralsYieldToDirectives ==
    /\ [][(pc = "culling" /\ pc' = "initialized") =>
            /\ Len(allowed') = Len(allowed)
            /\ \A i \in 1..Len(allowed) : allowed'[i] = C13_Expected(allowed[i])]_vars
    /\ [](C7_DecoratorsCulled =>
            \A i \in 1..Len(allowed) :
                /\ ~(HasAnyLiteral(allowed[i]) /\ HasDirective(allowed[i]))
                /\ (/\ allowed[i] # <<>>
                    /\ is_decorator(allowed[i][get_max_score(allowed[i])]))
                       => ~HasDirective(allowed[i]))

\* test_18's sample "Mon Sep am": the words lost their Literals and are
\* rendered as directives, the spaces between them as Literals
C13_Witness ==
    /\ Detected
    /\ DatesList(dates) = << <<"M", "o", "n", " ", "S", "e", "p", " ", "a", "m">> >>
    /\ result = <<"%", "a", " ", "%", "b", " ", "%", "p">>
    /\ ~HasAnyLiteral(allowed[1])
    /\ ~HasDirective(allowed[2])

\* C15's survival condition for a candidate against the sample token dtok
C15_Survives(tok, dtok) ==
    IF is_decorator(tok) THEN tok.text = dtok.text
    ELSE /\ tok.kind = dtok.kind
         /\ is_number(tok) => NumIncludesValue(tok.option, IntOf(dtok.text))
         /\ is_word(tok) => WordIncludesValue(tok.option, dtok.text)

\* the candidates of Position i that C15 says survive the sample date_tokens
C15_Survivors(i, date_tokens) ==
    LET Stays(tok) == C15_Survives(tok, date_tokens[i])
    IN SelectSeq(allowed[i], Stays)

\* C15: culling with a sample of n tokens keeps, at each Position below
\* min(m, n), exactly the candidates that agree with the sample's token, in
\* their order and with their scores; it leaves the Positions from min(m, n)
\* on unchanged and raises no error for any n.
C15_CullKeepsAgreeing ==
    [][(pc = "culling" /\ di < Len(DatesList(dates))) =>
          LET date_tokens == SampleTokens(di + 1)
              upto == Min(Len(allowed), Len(date_tokens))
          IN \/ /\ pc' = "culling"
                /\ di' = di + 1
                /\ Len(allowed') = Len(allowed)
                /\ \A i \in 1..Len(allowed) :
                       allowed'[i] = IF i <= upto
                                     THEN C15_Survivors(i, date_tokens)
                                     ELSE allowed[i]
             \/ pc' = "done"]_vars

\* "13:70 AM" culled with the shorter sample "5": the first Position lost
\* its Literal and kept Numeric candidates, the others are as they were
C15_Witness ==
    /\ pc = "culling"
    /\ di = 2
    /\ Len(allowed) = 5
    /\ Len(SampleTokens(2)) = 1
    /\ ~HasAnyLiteral(allowed[1])
    /\ HasNumeric(allowed[1])
    /\ \A i \in 2..5 : HasLiteral(allowed[i], ReferenceTokens[i].text)

---------------------------------------------------------------------------
(* Properties of sessions with caller-supplied rules, checked under        *)
(* SpecRule.                                                               *)

\* the candidate get_format_string selects at a Position that has candidates
Selected(i) == allowed[i][get_max_score(allowed[i])]

\* a text with every '%' written twice
C14_Doubled(text) ==
    Concat([k \in 1..Len(text) |->
               IF text[k] = "%" THEN <<"%", "%">> ELSE <<text[k]>>])

\* what C14 says Position i contributes to the format string
C14_Emitted(i) ==
    IF allowed[i] = <<>> THEN <<>>
    ELSE IF is_decorator(Selected(i))
         THEN IF args.replace_percent
              THEN C14_Doubled(ReferenceTokens[i].text)
              ELSE ReferenceTokens[i].text
    ELSE Selected(i).text

\* C14: where the selected token is a Literal, get_format_string emits the
\* reference sample's token text verbatim, with every '%' doubled iff
\* replace_percent is true; a selected directive's text is never escaped.
C14_LiteralVerbatim ==
    (pc = "done" /\ (~args.blank_if_unrecognized \/ result # <<>>)) =>
        result = Concat([i \in 1..Len(allowed) |-> C14_Emitted(i)])

\* "5%X": a directive, the Literal '%' doubled and the Literal 'X' in
\* upper case
C14_Witness ==
    /\ pc = "done"
    /\ args.replace_percent
    /\ DatesList(dates) = << <<"5", "%", "X">> >>
    /\ Len(result) = 5
    /\ SubSeq(result, 3, 5) = <<"%", "%", "X">>
    /\ ~is_decorator(Selected(1))

\* a WordOption accepts a text as C16 words it: the lower-cased text is one
\* of the words, or a prefix of one when the option's minimum prefix length
\* is > 0 and the text is at least that long
C16_Accepts(option, text) ==
    \/ \E k \in 1..Len(option.words) : option.words[k] = Lower(text)
    \/ /\ option.matchlength > 0
       /\ Len(text) >= option.matchlength
       /\ \E k \in 1..Len(option.words) :
              /\ Len(option.words[k]) >= Len(text)
              /\ SubSeq(option.words[k], 1, Len(text)) = Lower(text)

\* the candidate C16 expects for an option: its directive, at its commonality
C16_Candidate(kind, option) ==
    [kind |-> kind, text |-> option.directive, option |-> option,
     score |-> option.common]

\* the candidates C16 expects for one token of the reference sample
C16_Candidates(tok) ==
    LET InRange(option) == /\ option.numrange[1] <= IntOf(tok.text)
                           /\ IntOf(tok.text) <= option.numrange[2]
        Accepts(option) == C16_Accepts(option, tok.text)
        nums == SelectSeq(numoptions, InRange)
        words == SelectSeq(wordoptions, Accepts)
    IN <<[kind |-> KIND_DECORATOR, text |-> tok.text, option |-> NoOption,
          score |-> 0]>>
       \o (IF tok.kind = KIND_NUMBER
           THEN [k \in 1..Len(nums) |-> C16_Candidate(KIND_NUMBER, nums[k])]
           ELSE <<>>)
       \o (IF tok.kind = KIND_WORD
           THEN [k \in 1..Len(words) |-> C16_Candidate(KIND_WORD, words[k])]
           ELSE <<>>)
       \o (IF tok.kind = KIND_TIMEZONE
           THEN <<[kind |-> KIND_TIMEZONE, text |-> tzoffsetdirective,
                   option |-> NoOption, score |-> 0]>>
           ELSE <<>>)

\* the range C16 expects for one token
C16_Range(tok) ==
    IF /\ tok.kind = KIND_NUMBER
       /\ \E k \in 1..Len(numoptions) :
              /\ numoptions[k].numrange[1] <= IntOf(tok.text)
              /\ IntOf(tok.text) <= numoptions[k].numrange[2]
    THEN <<IntOf(tok.text), IntOf(tok.text)>>
    ELSE None

\* C16: init_with_date_tokens creates one Position per token, holding the
\* Literal of the token's text at score 0, then one candidate per option that
\* accepts the token (at the option's commonality), then the timezone
\* directive for a TimezoneOffset token; the range is [value, value] exactly
\* when some NumericOption matched.
C16_InitialCandidates ==
    (pc = "culling" /\ di = 0) =>
        /\ Len(allowed) = Len(ReferenceTokens)
        /\ Len(numranges) = Len(ReferenceTokens)
        /\ \A i \in 1..Len(ReferenceTokens) :
               /\ allowed[i] = C16_Candidates(ReferenceTokens[i])
               /\ numranges[i] = C16_Range(ReferenceTokens[i])

\* "Wed pm" with the caller's word options: "Wed" is taken as a prefix of
\* "wednesday", "pm" (shorter than the prefix length 3) as an exact word
C16_Witness ==
    /\ pc = "culling"
    /\ di = 0
    /\ wordoptions = CallerWordOptions
    /\ DatesList(dates) = << <<"W", "e", "d", " ", "p", "m">> >>
    /\ Len(allowed) = 3
    /\ Len(allowed[1]) = 2 /\ allowed[1][2].text = <<"%", "A">>
    /\ Len(allowed[3]) = 2 /\ allowed[3][2].text = <<"%", "p">>
    /\ allowed[3][2].score = COMMON

---------------------------------------------------------------------------
(* Properties of format assembly, checked under Spec.                      *)

\* the highest score among the candidates of a Position that has some
C17_Highest(i) ==
    CHOOSE s \in {allowed[i][j].score : j \in 1..Len(allowed[i])} :
        \A j \in 1..Len(allowed[i]) : allowed[i][j].score <= s

\* the earliest candidate of Position i that carries the highest score
C17_Earliest(i) ==
    LET first == CHOOSE j \in 1..Len(allowed[i]) :
                    /\ allowed[i][j].score = C17_Highest(i)
                    /\ \A l \in 1..(j - 1) : allowed[i][l].score # C17_Highest(i)
    IN allowed[i][first]

\* what Position i contributes: nothing when it has no candidate, else the
\* text of its earliest highest-scored candidate ('%' doubled in a Literal
\* when replace_percent is set)
C17_Contribution(i) ==
    IF allowed[i] = <<>> THEN <<>>
    ELSE IF args.replace_percent /\ C17_Earliest(i).kind = KIND_DECORATOR
         THEN C14_Doubled(C17_Earliest(i).text)
         ELSE C17_Earliest(i).text

\* the string a call that does not blank its result returns
C17_Assembled ==
    (pc = "done" /\ (~args.blank_if_unrecognized \/ result # <<>>)) =>
        result = Concat([i \in 1..Len(allowed) |-> C17_Contribution(i)])

\* get_format_string leaves every candidate, score and range as it was, and
\* a repeated call with the same arguments returns the same string
C17_ReadOnly ==
    (pc' = "done") =>
        /\ allowed' = allowed
        /\ numranges' = numranges
        /\ (pc = "done" /\ args' = args) => result' = result

\* C17: format assembly selects at each non-empty Position the candidate with
\* the highest score, the earliest on a tie, contributes nothing for an empty
\* Position and concatenates in Position order; get_format_string changes no
\* candidate, score or range, so repeated calls return the same string.
C17_AssemblySelectsEarliestMax ==
    [][C17_ReadOnly]_vars /\ [](C17_Assembled)

\* a returned string built over a Position with tied winners, of which the
\* first was taken, and over a Position left without candidates
C17_Witness ==
    /\ pc = "done"
    /\ ~args.blank_if_unrecognized
    /\ result # <<>>
    /\ \E i \in 1..Len(allowed) : allowed[i] = <<>>
    /\ \E i \in 1..Len(allowed) :
          /\ Len(get_all_max_score(allowed[i])) > 1
          /\ result = Concat([k \in 1..Len(allowed) |-> C17_Contribution(k)])

---------------------------------------------------------------------------
(* Properties of single rules, checked under SpecRule.                     *)

\* the rule an ApplyRule step applies
RuleAtHand == formatrules[ri + 1]

\* a step that applies a rule of the given type
Applies(type) ==
    /\ pc = "initialized"
    /\ ri < Len(formatrules)
    /\ RuleAtHand.type = type
    /\ ri' = ri + 1

\* the text is one of the items of a tuple
C18_OneOf(text, c) == \E k \in 1..Len(PyIter(c)) : PyIter(c)[k] = text

\* an immediate neighbour of Position i holds a candidate whose text is one
\* of the rule's delimiters
C18_Adjacent(i) ==
    \E k \in {i - 1, i + 1} \cap (1..Len(allowed)) :
        \E j \in 1..Len(allowed[k]) :
            C18_OneOf(allowed[k][j].text, RuleAtHand.delimiters)

\* the score C18 gives candidate j of Position i after the rule
C18_Score(i, j) ==
    allowed[i][j].score +
        (IF ~C18_OneOf(allowed[i][j].text, RuleAtHand.directives) THEN 0
         ELSE IF C18_Adjacent(i) THEN RuleAtHand.posscore
         ELSE RuleAtHand.negscore)

C18_Step ==
    Applies("delimiter") =>
        allowed' = [i \in 1..Len(allowed) |->
                       [j \in 1..Len(allowed[i]) |->
                           [allowed[i][j] EXCEPT !.score = C18_Score(i, j)]]]

\* C18: DSDelimiterRule.apply: a Position is adjacent iff an immediate
\* neighbour holds a candidate whose text is one of the rule's delimiters;
\* every target-set candidate at an adjacent Position receives posscore
\* exactly once, every target-set candidate at a non-adjacent Position
\* receives negscore exactly once, and all other scores are unchanged.
C18_DelimiterAdjacency == [][C18_Step]_vars

\* the text is the rule's directive, or one of its set of directives
C19_InTargets(text, c) ==
    IF c.py = "str" THEN text = c.v ELSE C18_OneOf(text, c)

\* the candidates C19 speaks of: Numeric, with a directive of the target set
C19_Targeted(tok) ==
    tok.kind = KIND_NUMBER /\ C19_InTargets(tok.text, RuleAtHand.directives)

\* the observed range of Position i lies inside the inclusive likely range
C19_Inside(i) ==
    /\ numranges[i][1] >= RuleAtHand.likelyrange[1]
    /\ numranges[i][2] <= RuleAtHand.likelyrange[2]

\* the score C19 gives candidate j of Position i after the rule
C19_Score(i, j) ==
    allowed[i][j].score +
        (IF ~C19_Targeted(allowed[i][j]) THEN 0
         ELSE IF C19_Inside(i) THEN RuleAtHand.posscore
         ELSE RuleAtHand.negscore)

\* every Position with a targeted candidate has an observed range
C19_RangesPresent ==
    \A i \in 1..Len(allowed) :
        (\E j \in 1..Len(allowed[i]) : C19_Targeted(allowed[i][j])) =>
            numranges[i] # None

\* a step taken where a likely-range rule is the next to apply, other than a
\* call of get_format_string: the rule is applied without failing
C19_Step ==
    (/\ pc = "initialized"
     /\ ri < Len(formatrules)
     /\ RuleAtHand.type = "likelyrange"
     /\ pc' # "done") =>
        /\ C19_RangesPresent
        /\ pc' = "initialized"
        /\ ri' = ri + 1
        /\ allowed' = [i \in 1..Len(allowed) |->
                          [j \in 1..Len(allowed[i]) |->
                              [allowed[i][j] EXCEPT !.score = C19_Score(i, j)]]]

\* C19: DSLikelyRangeRule.apply adds posscore to every Numeric candidate whose
\* directive is in the target set when its Position's observed [min,max] lies
\* inside the inclusive likely range, and negscore otherwise; it changes no
\* other candidate, and in any model reachable through construction and
\* culling it never reads a missing observed range.
C19_LikelyRangeScores == [][C19_Step]_vars

\* "2013" and "3001" under the rule for %Y and %G with the likely range
\* [1000, 3000]: the minimum is inside, the maximum is not, and %Y and %G
\* have each lost a point against their commonality
C19_Witness ==
    /\ pc = "initialized"
    /\ ri = 1
    /\ formatrules[1].type = "likelyrange"
    /\ formatrules[1].likelyrange = <<1000, 3000>>
    /\ numranges = << <<2013, 3001>> >>
    /\ \E j \in 1..Len(allowed[1]) :
          /\ allowed[1][j].text = <<"%", "Y">>
          /\ allowed[1][j].score = dir_Y.common - 1
    /\ \E j \in 1..Len(allowed[1]) :
          /\ allowed[1][j].text = <<"%", "G">>
          /\ allowed[1][j].score = dir_G.common - 1

\* how often the scan of the rule at hand has recorded candidate j of
\* Position i as matched
C20_Recorded(i, j) == CountIn(<<i, j>>, OrderedToks(RuleAtHand, allowed))

C20_Step ==
    Applies("pattern") =>
        \A i \in 1..Len(allowed) : \A j \in 1..Len(allowed[i]) :
            /\ C20_Recorded(i, j) <= 1
            /\ C20_Recorded(i, j) >= 1 =>
                   allowed'[i][j].score = allowed[i][j].score + RuleAtHand.posscore

\* C20: DSPatternRule.apply: when the sequence is completed several times in
\* one left-to-right scan, the occurrences are disjoint (a candidate consumed
\* by one completed occurrence is not recorded again for a later one) and
\* every matched candidate receives posscore exactly once per application of
\* the rule, however close together the occurrences are.
C20_OccurrencesDisjoint == [][C20_Step]_vars

\* the scan of the rule at hand after the Positions 1..i
RECURSIVE ScanAfter(_)
ScanAfter(i) ==
    IF i = 0 THEN PatternStart
    ELSE CHOOSE after \in { PatternStep(RuleAtHand, allowed, i, before) :
                               before \in {ScanAfter(i - 1)} } : TRUE

\* a pattern rule is the next to apply
PatternAtHand ==
    /\ pc = "initialized"
    /\ ri < Len(formatrules)
    /\ RuleAtHand.type = "pattern"

\* a match is in progress when the scan reaches Position i: some but not all
\* sequence elements are matched
C21_InProgress(i) == ScanAfter(i - 1).onarg > 0

\* the partial match is given up at Position i: what was matched before is no
\* longer the beginning of what is matched after
C21_Discarded(i) ==
    LET before == ScanAfter(i - 1).current
        after == ScanAfter(i).current
    IN ~(Len(after) >= Len(before) /\ SubSeq(after, 1, Len(before)) = before)

\* Position i has a candidate for the sequence element the match waits for
C21_MatchesNext(i) ==
    \E j \in 1..Len(allowed[i]) :
        PatternMatches(RuleAtHand, allowed[i][j], ScanAfter(i - 1).onarg)

\* the consecutive Positions, up to and including i, that failed to match
\* since the last matched element
C21_Failed(i) == ScanAfter(i - 1).counter + B2I(~C21_MatchesNext(i))

\* C21: DSPatternRule.apply: while a match is in progress, up to maxdistance
\* consecutive non-matching Positions are tolerated between two consecutive
\* sequence elements; the partial match is discarded only when more than
\* maxdistance consecutive Positions fail to match.
C21_GapTolerated ==
    PatternAtHand =>
        \A i \in 1..Len(allowed) :
            C21_InProgress(i) =>
                (C21_Discarded(i) <=> C21_Failed(i) > RuleAtHand.maxdistance)

\* the candidates of Position i the scan records when it examines it
C22_RecordedAt(i) ==
    LET current == ScanAfter(i).current
    IN {j \in 1..Len(allowed[i]) : \E k \in 1..Len(current) : current[k] = <<i, j>>}

\* the sequence element Position i is held against
C22_Awaited(i) ==
    RuleAtHand.sequence[PatternTimeout(RuleAtHand, ScanAfter(i - 1)).onarg + 1]

\* a candidate may match: a Literal at any score, a directive only with a
\* score, as it stands when the rule is applied, of at least minmatchscore
C22_Eligible(tok) ==
    tok.kind = KIND_DECORATOR \/ tok.score >= RuleAtHand.minmatchscore

C23_WholeTextOnly ==
    PatternAtHand =>
        \A i \in 1..Len(allowed) : \A j \in C22_RecordedAt(i) :
            C19_InTargets(allowed[i][j].text, C22_Awaited(i))

\* the text appears in some sequence element of the rule at hand
C24_InSequence(text) ==
    \E k \in 1..Len(RuleAtHand.sequence) : PyIn(text, RuleAtHand.sequence[k])

\* what C24 adds to candidate j of Position i: posscore for a candidate of a
\* completed match, negscore once for an unmatched directive candidate whose
\* text appears in the sequence, nothing otherwise
C24_Delta(i, j) ==
    IF C20_Recorded(i, j) > 0 THEN RuleAtHand.posscore * C20_Recorded(i, j)
    ELSE IF allowed[i][j].kind # KIND_DECORATOR /\ C24_InSequence(allowed[i][j].text)
         THEN RuleAtHand.negscore
         ELSE 0

C24_Step ==
    Applies("pattern") =>
        \A i \in 1..Len(allowed) : \A j \in 1..Len(allowed[i]) :
            allowed'[i][j].score = allowed[i][j].score + C24_Delta(i, j)

\* C24: DSPatternRule.apply, negative step: every directive candidate
\* anywhere in the model whose text appears in some sequence element and
\* which was not part of any completed match receives negscore once; Literal
\* candidates and candidates of a completed match receive no negscore.
C24_NegativeOnce == [][C24_Step]_vars


---------------------------------------------------------------------------
(* DSMutExclusionRule.apply, as C25 states it *)

\* the scores of the candidates that belong to group element e
C25_Scores(e) ==
    {allowed[i][j].score :
        <<i, j>> \in {r \in UNION {{<<p, q>> : q \in 1..Len(allowed[p])} : p \in 1..Len(allowed)} :
                         C19_InTargets(allowed[r[1]][r[2]].text, RuleAtHand.directives[e])}}

\* the score of the champion of group element e; which of several equal
\* candidates is the champion does not show in any score
C25_Champion(e) == CHOOSE s \in C25_Scores(e) : \A t \in C25_Scores(e) : t <= s

\* the winning element: the highest champion, the lowest index on ties;
\* 0 when no candidate belongs to any element
C25_Winning ==
    LET present == {e \in 1..Len(RuleAtHand.directives) : C25_Scores(e) # {}}
        best == [e \in present |-> C25_Champion(e)]
    IN IF present = {} THEN 0
       ELSE CHOOSE e \in present :
                \A f \in present : best[f] < best[e] \/ (best[f] = best[e] /\ e <= f)

C25_Score(i, j, winning) ==
    allowed[i][j].score +
        (IF winning = 0 THEN 0
         ELSE (IF C19_InTargets(allowed[i][j].text, RuleAtHand.directives[winning])
               THEN RuleAtHand.posscore ELSE 0)
            + (IF \E e \in 1..Len(RuleAtHand.directives) :
                      /\ e # winning
                      /\ C19_InTargets(allowed[i][j].text, RuleAtHand.directives[e])
               THEN RuleAtHand.negscore ELSE 0))

C25_Step ==
    Applies("mutexclusion") =>
        \E winning \in {C25_Winning} :
            allowed' = [i \in 1..Len(allowed) |->
                           [j \in 1..Len(allowed[i]) |->
                               [allowed[i][j] EXCEPT !.score = C25_Score(i, j, winning)]]]

\* C25: DSMutExclusionRule.apply: the champion of each group element is its
\* highest-scoring candidate (the earliest on ties), the winning element is
\* the one with the highest champion (the lowest index on ties); every
\* candidate of the winning element receives posscore and every candidate of
\* another element receives negscore; when no candidate belongs to any
\* element no score changes
C25_MutualExclusion == [][C25_Step]_vars


---------------------------------------------------------------------------
(* Properties of penalize_duplicates, checked under Spec *)

\* the step of process() that resolves duplicates
Penalizes == pc = "initialized" /\ pc' = "processed"

\* the best-scoring set of Position i: the places of its max-score candidates
C26_Best(alw, i) ==
    {j \in 1..Len(alw[i]) : \A l \in 1..Len(alw[i]) : alw[i][l].score <= alw[i][j].score}

\* the uniquely-best directive texts
C26_UniquelyBest(alw) ==
    {alw[i][j].text :
        <<i, j>> \in {r \in UNION {{<<p, q>> : q \in 1..Len(alw[p])} : p \in 1..Len(alw)} :
                         /\ C26_Best(alw, r[1]) = {r[2]}
                         /\ alw[r[1]][r[2]].kind # KIND_DECORATOR}}

\* the model after Step A as C26 states it
C26_StepA(alw, dupepenalty) ==
    [i \in 1..Len(alw) |->
        [j \in 1..Len(alw[i]) |->
            IF Cardinality(C26_Best(alw, i)) > 1 /\ alw[i][j].text \in C26_UniquelyBest(alw)
            THEN [alw[i][j] EXCEPT !.score = @ + dupepenalty]
            ELSE alw[i][j]]]

C26_Step ==
    Penalizes =>
        \E first \in {C26_StepA(allowed, DUPEPENALTY)} :
            allowed' = PenalizeSecond(first, DUPEPENALTY)

C27_Group(alw, text) ==
    LET Member(ref) ==
            /\ TokAt(alw, ref).text = text
            /\ TokAt(alw, ref).kind # KIND_DECORATOR
            /\ ref[2] \in C26_Best(alw, ref[1])
    IN SelectSeq(AllRefs(alw), Member)

\* the highest-scoring instance of a group, the first on ties
C27_Highest(alw, group) ==
    group[CHOOSE k \in 1..Len(group) :
              /\ \A l \in 1..Len(group) : TokAt(alw, group[l]).score <= TokAt(alw, group[k]).score
              /\ \A l \in 1..(k - 1) : TokAt(alw, group[l]).score < TokAt(alw, group[k]).score]

\* the model after Step B as C27 states it
C27_StepB(alw, dupepenalty) ==
    [i \in 1..Len(alw) |->
        [j \in 1..Len(alw[i]) |->
            LET group == C27_Group(alw, alw[i][j].text)
            IN IF Len(group) > 1 /\ C27_Highest(alw, group) # <<i, j>>
               THEN [alw[i][j] EXCEPT !.score = @ + dupepenalty]
               ELSE alw[i][j]]]

C27_Step ==
    Penalizes =>
        \E first \in {PenalizeFirst(allowed, DUPEPENALTY)} :
            allowed' = C27_StepB(first, DUPEPENALTY)

\* C27: penalize_duplicates, second pass: the best-scoring directive
\* candidates are grouped by text; in a group of more than one member the
\* highest-scoring instance (the first on ties) keeps its score and every
\* other candidate with that text, anywhere, receives dupepenalty; a text
\* whose group has one member changes no score
C27_SecondPass == [][C27_Step]_vars


---------------------------------------------------------------------------
(* What the scoring steps leave alone, checked under Spec *)

\* a rule of any of the four classes is applied
C28_AppliesRule ==
    \E type \in {"delimiter", "likelyrange", "pattern", "mutexclusion"} : Applies(type)

\* the same candidates in the same order at every Position, up to scores
C28_SameCandidates ==
    /\ Len(allowed') = Len(allowed)
    /\ \A i \in 1..Len(allowed) :
          /\ Len(allowed'[i]) = Len(allowed[i])
          /\ \A j \in 1..Len(allowed[i]) :
                [allowed'[i][j] EXCEPT !.score = 0] = [allowed[i][j] EXCEPT !.score = 0]

C28_Step ==
    (C28_AppliesRule \/ Penalizes) =>
        /\ C28_SameCandidates
        /\ numranges' = numranges
        /\ formatrules' = formatrules

\* C28: apply_rules, for each of the four rule classes, and
\* penalize_duplicates change only scores: the candidates of every Position,
\* their order, kind and text, every observed range and the rules' own
\* configuration stay as they were
C28_OnlyScoresChange == [][C28_Step]_vars

\* "5-13" after the default rules and the duplicate pass: the seventeen
\* candidates of the first Position are all there, %j among them at 1
C28_Witness ==
    /\ pc = "processed"
    /\ ri = Len(formatrules)
    /\ dates = PyTuple(<< <<"5", "-", "1", "3">> >>)
    /\ Len(allowed) = 3
    /\ Len(allowed[1]) = 17
    /\ \E j \in 1..Len(allowed[1]) :
          /\ allowed[1][j].text = <<"%", "j">>
          /\ allowed[1][j].kind = KIND_NUMBER
          /\ allowed[1][j].score = 1
    /\ numranges[1] = <<5, 5>>
    /\ numranges[3] = <<13, 13>>


---------------------------------------------------------------------------
(* The optional arguments of detect_format, checked under SpecRule *)

\* the attribute holds the argument when one was given, the default when
\* none was
C29_AsGiven(arg, used, default) ==
    IF arg = Omitted THEN used = default ELSE used = arg.v

\* C29: detect_format puts the default in place of the rules, the numeric
\* options, the word options or the timezone directive only when the
\* argument is omitted; a value the caller gives, an empty collection
\* included, is used as given
C29_DefaultsOnlyWhenOmitted ==
    pc = "processed" =>
        /\ C29_AsGiven(given.formatRules, formatrules, get_default_rules)
        /\ C29_AsGiven(given.numOptions, numoptions, get_default_numoptions)
        /\ C29_AsGiven(given.wordOptions, wordoptions, get_default_wordoptions)
        /\ C29_AsGiven(given.tzOffsetDirective, tzoffsetdirective,
                       get_default_tzoffsetdirective)


---------------------------------------------------------------------------
(* Observed ranges and the Numeric candidates, checked under Spec *)

\* C30: at every Position, the observed range [min, max] lies inside the
\* option range of every Numeric candidate that is still present:
\* option.min <= min <= max <= option.max
C30_RangeInsideOptions ==
    \A i \in 1..Len(allowed) :
        \A j \in 1..Len(allowed[i]) :
            allowed[i][j].kind = KIND_NUMBER =>
                /\ numranges[i] # None
                /\ allowed[i][j].option.numrange[1] <= numranges[i][1]
                /\ numranges[i][1] <= numranges[i][2]
                /\ numranges[i][2] <= allowed[i][j].option.numrange[2]

\* "5" and "13" culled: the Position has seen 5 to 13, %d is still a
\* candidate, %m (1 to 12) is not
C30_Witness ==
    /\ pc = "initialized"
    /\ dates = PyTuple(<< <<"5">>, <<"1", "3">> >>)
    /\ numranges = << <<5, 13>> >>
    /\ \E j \in 1..Len(allowed[1]) :
          /\ allowed[1][j].text = <<"%", "d">>
          /\ allowed[1][j].kind = KIND_NUMBER
    /\ \A j \in 1..Len(allowed[1]) : allowed[1][j].text # <<"%", "m">>

=============================================================================
